---- MODULE Spec2Model ----
(***************************************************************************)
(* A model of the CPO analyzer (src/src/lib.rs).                           *)
(*                                                                         *)
(* Spec          process_configuration: one unit of work per experiment    *)
(*               directory; a unit resolves each requested time to a       *)
(*               timestep, scans the grain shards of that timestep for     *)
(*               each requested particle id and hands the assembled pole   *)
(*               figures to the renderer.                                  *)
(* SpecTime      the Time Resolver on its own, over any time table.        *)
(* SpecAssemble  the assembly of the pole-figure grid and the colour scale *)
(*               shared by the figures of one mineral.                     *)
(* SpecEuler     euler_angles_to_rotation_matrix and its inverse,          *)
(*               euler_angles_from_rotation_matrix.                        *)
(* SpecOutput    the directories and files the units of one run write.     *)
(* SpecDensity   create_lambert_equal_area_gridpoint, the density          *)
(*               estimator gaussian_orientation_counts, the largest count  *)
(*               and the validity mask of make_pole_figures.               *)
(***************************************************************************)
EXTENDS Integers, Sequences, FiniteSets, TLC

(***************************************************************************)
(* Bounds of the model.                                                    *)
(***************************************************************************)
\* grain shard files may exist for the ranks 0 .. MaxShard-1 of a timestep
MaxShard == 3
\* the grain shards of one experiment hold at most this many rows in total
MaxGrainRows == 2
\* the configuration requests at most this many particle ids
MaxIds == 2
\* the configuration lists at most this many experiment directories
MaxExp == 3
\* a time table on its own holds at most this many timesteps
MaxTable == 4
\* a statistics file on its own holds at most this many lines
MaxStatLines == 3
\* the sampling grid on its own has up to MaxSpherePoints points a side
MaxSpherePoints == 5
\* the pole-figure grid on its own has SpherePoints x SpherePoints cells
SpherePoints == 2
\* the entries of a rotation matrix on its own are n / MatrixDenominator
MatrixDenominator == 25

\* the particle ids that occur in the configuration and in the files
ParticleIdSet == {1, 2}

VARIABLES
    config,   \* the Config handed to process_configuration
    fs,       \* the file tree below base_dir + experiment_dir, per experiment
    leaves,   \* how the worker pool cut experiment_dirs into sequential pieces
    unit,     \* per experiment: the locals of the closure of lib.rs:193-666
    log,      \* per experiment: what the unit has reported and rendered so far
    result,   \* how process_configuration ended
    resolver, \* the Time Resolver on its own: table, requested time, timestep
    assembly, \* the pole-figure assembly on its own: the grid of pole figures
    euler,    \* the Euler-angle conversions on their own: angles and matrices
    output,   \* the output paths of the units on their own: what each has written
    density   \* the sampling grid and the density estimator on their own

pipelineVars == <<config, fs, leaves, unit, log, result>>
calcVars == <<resolver, assembly, euler, output, density>>

(***************************************************************************)
(* Small helpers.                                                          *)
(***************************************************************************)
Abs(x) == IF x < 0 THEN -x ELSE x

Last(s) == s[Len(s)]

\* all sequences over S of length lo .. hi
SeqsOf(S, lo, hi) == UNION {[1..n -> S] : n \in lo..hi}

\* the largest r with r * r <= n, by bisection between lo and hi
RECURSIVE FloorSqrtBetween(_, _, _)
FloorSqrtBetween(n, lo, hi) ==
    IF hi - lo <= 1 THEN lo
    ELSE LET mid == (lo + hi) \div 2
         IN IF mid * mid <= n
            THEN FloorSqrtBetween(n, mid, hi)
            ELSE FloorSqrtBetween(n, lo, mid)

FloorSqrt(n) == FloorSqrtBetween(n, 0, 46341)

(***************************************************************************)
(* Decimal fractions of sixteen places, the resolution of an f64 next to   *)
(* 1: <<whole, d1, d2, d3, d4>> is whole + d1 / 10^4 + d2 / 10^8 +         *)
(* d3 / 10^12 + d4 / 10^16, every part 0 or above and d1 .. d4 below 10^4. *)
(* The operations cut their result after the sixteenth place and keep      *)
(* every intermediate value within 32 bits.  The irrational values of the  *)
(* program (square roots and exponentials) are computed in them.           *)
(***************************************************************************)
Limb == 100 * 100

FixZero == <<0, 0, 0, 0, 0>>

FixOne == <<1, 0, 0, 0, 0>>

FixLess(a, b) == \E k \in 1..5 : a[k] < b[k] /\ \A i \in 1..(k - 1) : a[i] = b[i]

FixAdd(a, b) ==
    LET s4 == a[5] + b[5]
        s3 == a[4] + b[4] + s4 \div Limb
        s2 == a[3] + b[3] + s3 \div Limb
        s1 == a[2] + b[2] + s2 \div Limb
    IN <<a[1] + b[1] + s1 \div Limb, s1 % Limb, s2 % Limb, s3 % Limb, s4 % Limb>>

\* a - b for a >= b; \div rounds down, so that a part below 0 borrows 1
FixSub(a, b) ==
    LET s4 == a[5] - b[5]
        s3 == a[4] - b[4] + s4 \div Limb
        s2 == a[3] - b[3] + s3 \div Limb
        s1 == a[2] - b[2] + s2 \div Limb
    IN <<a[1] - b[1] + s1 \div Limb, s1 % Limb, s2 % Limb, s3 % Limb, s4 % Limb>>

\* a * b, for whole parts below 10^4
FixMul(a, b) ==
    LET c8 == a[5] * b[5]
        c7 == a[4] * b[5] + a[5] * b[4] + c8 \div Limb
        c6 == a[3] * b[5] + a[4] * b[4] + a[5] * b[3] + c7 \div Limb
        c5 == a[2] * b[5] + a[3] * b[4] + a[4] * b[3] + a[5] * b[2] + c6 \div Limb
        c4 == a[1] * b[5] + a[2] * b[4] + a[3] * b[3] + a[4] * b[2] + a[5] * b[1]
              + c5 \div Limb
        c3 == a[1] * b[4] + a[2] * b[3] + a[3] * b[2] + a[4] * b[1] + c4 \div Limb
        c2 == a[1] * b[3] + a[2] * b[2] + a[3] * b[1] + c3 \div Limb
        c1 == a[1] * b[2] + a[2] * b[1] + c2 \div Limb
    IN <<a[1] * b[1] + c1 \div Limb, c1 % Limb, c2 % Limb, c3 % Limb, c4 % Limb>>

\* a * m for a whole number m of 0 .. 200000
FixScale(a, m) ==
    LET t4 == a[5] * m
        t3 == a[4] * m + t4 \div Limb
        t2 == a[3] * m + t3 \div Limb
        t1 == a[2] * m + t2 \div Limb
    IN <<a[1] * m + t1 \div Limb, t1 % Limb, t2 % Limb, t3 % Limb, t4 % Limb>>

\* a / n for a whole number n of 1 .. 200000, by long division
FixDivInt(a, n) ==
    LET d1 == (a[1] % n) * Limb + a[2]
        d2 == (d1 % n) * Limb + a[3]
        d3 == (d2 % n) * Limb + a[4]
        d4 == (d3 % n) * Limb + a[5]
    IN <<a[1] \div n, d1 \div n, d2 \div n, d3 \div n, d4 \div n>>

\* the fraction n / d, n >= 0 < d, by long division, a decimal place a step
FixOfFraction(n, d) ==
    LET R[i \in 0..16] == IF i = 0 THEN n % d ELSE (R[i-1] * 10) % d
        D[i \in 1..16] == (R[i-1] * 10) \div d
        part(i) == D[i] * 1000 + D[i+1] * 100 + D[i+2] * 10 + D[i+3]
    IN <<n \div d, part(1), part(5), part(9), part(13)>>

\* 1 / b for b of 0.0001 and above: a first value of four digits from the
\* division of whole numbers, and four steps y <- y (2 - b y), each of
\* which doubles the digits that are right
RECURSIVE FixInvSteps(_, _, _)
FixInvSteps(b, y, steps) ==
    IF steps = 0 THEN y
    ELSE FixInvSteps(b, FixMul(y, FixSub(<<2, 0, 0, 0, 0>>, FixMul(b, y))), steps - 1)

\* the number q / 10^4 of a whole number q
FixOfLimbs(q) == <<q \div Limb, q % Limb, 0, 0, 0>>

FixInv(b) == FixInvSteps(b, FixOfLimbs((Limb * Limb) \div (b[1] * Limb + b[2])), 4)

FixDiv(a, b) == FixMul(a, FixInv(b))

\* 1 / sqrt(a) for a of 0.0001 .. 20: a first value from the root of a
\* whole number, and five steps y <- y (3 - a y y) / 2
RECURSIVE FixInvSqrtSteps(_, _, _)
FixInvSqrtSteps(a, y, steps) ==
    IF steps = 0 THEN y
    ELSE FixInvSqrtSteps(a, FixDivInt(FixMul(y, FixSub(<<3, 0, 0, 0, 0>>,
                                                       FixMul(a, FixMul(y, y)))), 2),
                         steps - 1)

FixInvSqrt(a) ==
    FixInvSqrtSteps(a, FixOfLimbs((Limb * Limb)
                                      \div FloorSqrt(a[1] * Limb * Limb + a[2] * Limb + a[3])),
                    5)

\* f64::sqrt of a value of 0 or 0.0001 .. 20
FixSqrt(a) ==
    IF a[1] = 0 /\ a[2] = 0 /\ a[3] = 0 THEN FixZero ELSE FixMul(a, FixInvSqrt(a))

\* a value with its sign: sign * size
Signed(sign, size) == [sign |-> IF size = FixZero THEN 0 ELSE sign, size |-> size]

(***************************************************************************)
(* The statistics file (time_data_file): its lines, and the table of      *)
(* times the unit reads from it.                                           *)
(***************************************************************************)
\* one line of the file: whether it starts with '#', whether it holds the
\* marker "particle_LPO", the number of fields the blanks cut it into,
\* whether its field 1 reads as a number, and that number
StatLineOf(comment, marker, fields, number, time) ==
    [comment |-> comment, marker |-> marker, fields |-> fields,
     number |-> number, time |-> time]

\* a line of three fields with a number in field 1, as in
\* "0 0.0 particle_LPO"
StatLine(comment, marker, time) == StatLineOf(comment, marker, 3, TRUE, time)

\* kept lines the reader stops at: "particle_LPO" (no field 1),
\* "0 abc particle_LPO" (field 1 is no number), "1 1.0 particle_LPO extra"
\* (a field more than the lines before it)
NoTimeStatLine == StatLineOf(FALSE, TRUE, 1, FALSE, 0)
TextTimeStatLine == StatLineOf(FALSE, TRUE, 3, FALSE, 0)
LongStatLine == StatLineOf(FALSE, TRUE, 4, TRUE, 10)

\* lib.rs:215-219: the lines the unit keeps: no comment, with the marker
KeptLines(lines) ==
    LET F[i \in 0..Len(lines)] ==
            IF i = 0 THEN <<>>
            ELSE IF ~lines[i].comment /\ lines[i].marker
                 THEN Append(F[i-1], lines[i])
                 ELSE F[i-1]
    IN F[Len(lines)]

\* lib.rs:229-238: the csv reader is not flexible, so result.unwrap() panics
\* on a kept line whose number of fields is not that of the first kept
\* line; record.get(1) is None on a line of one field and the assert
\* fails; parse::<f64>().unwrap() panics on a field 1 that is no number
TimeTablePanics(lines) ==
    LET kept == KeptLines(lines)
    IN \E i \in 1..Len(kept) :
          \/ kept[i].fields # kept[1].fields
          \/ kept[i].fields < 2
          \/ ~kept[i].number

\* lib.rs:215-219, a variant: a line that holds the marker is taken whether
\* it starts with '#' or not
TimestepToTimeOfMarked(lines) ==
    LET F[i \in 0..Len(lines)] ==
            IF i = 0 THEN <<>>
            ELSE IF lines[i].marker
                 THEN Append(F[i-1], lines[i].time)
                 ELSE F[i-1]
    IN F[Len(lines)]

\* lib.rs:206-238: the times of the lines that are no comment and hold the
\* marker, in file order
TimestepToTime(lines) ==
    LET F[i \in 0..Len(lines)] ==
            IF i = 0 THEN <<>>
            ELSE IF ~lines[i].comment /\ lines[i].marker
                 THEN Append(F[i-1], lines[i].time)
                 ELSE F[i-1]
    IN F[Len(lines)]

(***************************************************************************)
(* The Time Resolver, lib.rs:244-271.  Timesteps are 0-based as in the     *)
(* source; the table is a sequence, so timestep i is times[i+1].           *)
(***************************************************************************)
\* lib.rs:247: position of the first time that exceeds the requested one,
\* -1 for None
AfterTime(times, output_time) ==
    IF \E i \in 1..Len(times) : times[i] > output_time
    THEN (CHOOSE i \in 1..Len(times) :
              /\ times[i] > output_time
              /\ \A j \in 1..(i-1) : ~(times[j] > output_time)) - 1
    ELSE -1

\* lib.rs:249-252
AfterTimestep(times, output_time) ==
    IF AfterTime(times, output_time) # -1
    THEN AfterTime(times, output_time)
    ELSE Len(times) - 1

\* lib.rs:255-258
BeforeTimestep(times, output_time) ==
    IF AfterTimestep(times, output_time) > 0
    THEN AfterTimestep(times, output_time) - 1
    ELSE AfterTimestep(times, output_time)

\* lib.rs:251, 262: an empty table makes len() - 1 underflow (a panic in a
\* debug build) and the index that follows is out of range (a panic in a
\* release build)
ResolverPanics(times) == Len(times) = 0

\* lib.rs:262-269, a variant: the comparison of the two differences reversed
ResolveTimestepFarther(times, output_time) ==
    LET before_timestep == BeforeTimestep(times, output_time)
        after_timestep == AfterTimestep(times, output_time)
        before_timestep_diff == Abs(output_time - times[before_timestep + 1])
        after_timestep_diff == Abs(output_time - times[after_timestep + 1])
    IN IF before_timestep_diff > after_timestep_diff
       THEN before_timestep
       ELSE after_timestep

\* lib.rs:262-269, a variant: ties go to the earlier timestep
ResolveTimestepTieBefore(times, output_time) ==
    LET before_timestep == BeforeTimestep(times, output_time)
        after_timestep == AfterTimestep(times, output_time)
        before_timestep_diff == Abs(output_time - times[before_timestep + 1])
        after_timestep_diff == Abs(output_time - times[after_timestep + 1])
    IN IF before_timestep_diff <= after_timestep_diff
       THEN before_timestep
       ELSE after_timestep

\* lib.rs:262-269
ResolveTimestep(times, output_time) ==
    LET before_timestep == BeforeTimestep(times, output_time)
        after_timestep == AfterTimestep(times, output_time)
        before_timestep_diff == Abs(output_time - times[before_timestep + 1])
        after_timestep_diff == Abs(output_time - times[after_timestep + 1])
    IN IF before_timestep_diff < after_timestep_diff
       THEN before_timestep
       ELSE after_timestep

(***************************************************************************)
(* The grain shard files <prefix>-<timestep>.<rank>.dat of one experiment. *)
(***************************************************************************)
\* a row of a grain shard: a well-formed row of particle `id`, a row of
\* particle `id` with an empty angle field (the field is None in the
\* Record, record.rs:6-13), or a row the csv reader cannot deserialize into
\* a Record (wrong number of fields, a field that is no number)
GoodRow(id) == [id |-> id, kind |-> "ok"]
IncompleteRow(id) == [id |-> id, kind |-> "noangle"]
BadRow == [id |-> 0, kind |-> "bad"]

\* the rows of the shards of the model's trees
RowSet ==
    {GoodRow(id) : id \in ParticleIdSet} \cup {BadRow}

\* a shard file: absent, present with length 0, present with bytes that are
\* no zlib stream (only in a tree whose shards are compressed), or present
\* with a header line and rows
AbsentShard == [kind |-> "absent", rows |-> <<>>]
EmptyShard == [kind |-> "empty", rows |-> <<>>]
CorruptShard == [kind |-> "corrupt", rows |-> <<>>]
DataShard(rows) == [kind |-> "data", rows |-> rows]

\* what a shard takes of the tree's budget of rows: its rows, and one for a
\* stream that does not decode
ShardCost(shard) == IF shard.kind = "corrupt" THEN 1 ELSE Len(shard.rows)

ShardSet(compressed, budget) ==
    {AbsentShard, EmptyShard}
    \cup (IF compressed /\ budget > 0 THEN {CorruptShard} ELSE {})
    \cup {DataShard(rows) : rows \in SeqsOf(RowSet, 0, budget)}

\* the shards of ranks 0 .. k-1, within the budget in total
RECURSIVE GrainTrees(_, _, _)
GrainTrees(compressed, k, budget) ==
    IF k = 0 THEN {<<>>}
    ELSE UNION {{<<s>> \o t : t \in GrainTrees(compressed, k - 1, budget - ShardCost(s))} :
                s \in ShardSet(compressed, budget)}

\* the particle-metadata shards of a tree, all of one kind: missing, with a
\* row that does not deserialize into a ParticleRecord, present without a
\* row of any requested id, present with a row of every id whose
\* elasticity fields are empty, or present with a full row of every id
ParticleModes == {"missing", "malformed", "noid", "partial", "hasid"}

\* lib.rs:369-375, particle_record.rs:24-47: the rows of the
\* particle-metadata shard of (time_step, rank): the x of a row tells the
\* timestep, the rank and the id it was written for, elastic whether the
\* Option fields of the row (z, olivine_deformation_type, the norms) hold
\* values
ParticleRows(tree, time_step, rank) ==
    IF tree.particle \in {"hasid", "partial"}
    THEN [i \in 1..Cardinality(ParticleIdSet) |->
              [id |-> i, x |-> 100 * (time_step + 1) + 10 * (rank + 1) + i,
               elastic |-> tree.particle = "hasid"]]
    ELSE <<[id |-> 0, x |-> 100 * (time_step + 1) + 10 * (rank + 1), elastic |-> TRUE]>>

\* the time table the statistics file of the model's trees holds: a comment,
\* two marker lines and a line without the marker
StandardStat ==
    <<StatLine(TRUE, TRUE, 7), StatLine(FALSE, TRUE, 0),
      StatLine(FALSE, FALSE, 1), StatLine(FALSE, TRUE, 2)>>

\* an experiment's file tree: the statistics file (its lines, or "missing"),
\* the grain shards of timestep 0 (no other timestep has shard files) and
\* the kind of its particle-metadata shards
Tree(stat_present, stat, grain, particle) ==
    [stat_present |-> stat_present, stat |-> stat, grain |-> grain, particle |-> particle]

\* lib.rs:307-314, 381: the grain shard file of (time_step, rank_id)
GrainShard(tree, time_step, rank_id) ==
    IF time_step = 0 /\ rank_id < Len(tree.grain)
    THEN tree.grain[rank_id + 1]
    ELSE AbsentShard

(***************************************************************************)
(* Decoding one grain shard for one particle id, lib.rs:400-463.           *)
(***************************************************************************)
\* lib.rs:425-463, a variant: the loop over the rows stops at the first row
\* with the particle id
MatchingRowsFirstOnly(rows, particle_id) ==
    LET F[i \in 0..Len(rows)] ==
            IF i = 0 THEN <<>>
            ELSE IF rows[i].id = particle_id /\ F[i-1] = <<>> THEN <<i>> ELSE F[i-1]
    IN F[Len(rows)]

\* lib.rs:425-463: the positions of the rows of `rows` whose id is
\* particle_id, in file order: for each the loop pushes the axis vectors
MatchingRows(rows, particle_id) ==
    LET F[i \in 0..Len(rows)] ==
            IF i = 0 THEN <<>>
            ELSE IF rows[i].id = particle_id THEN Append(F[i-1], i) ELSE F[i-1]
    IN F[Len(rows)]

\* lib.rs:411-412, 426, a variant: rows that do not deserialize are skipped
\* and a stream that does not decode reads as no rows
DecodePanicsNever(shard, compressed, particle_id) == FALSE

\* lib.rs:411-412: Decoder::new(..).unwrap() and read_to_end(..).unwrap()
\* panic on a stream that is no zlib stream; lib.rs:426: result.unwrap()
\* panics on the first row that does not deserialize, matching or not;
\* lib.rs:432-452: the unwrap of an angle panics on a row of the particle
\* id with an empty angle field
DecodePanics(shard, compressed, particle_id) ==
    \/ compressed /\ shard.kind = "corrupt"
    \/ \E i \in 1..Len(shard.rows) :
          \/ shard.rows[i].kind = "bad"
          \/ shard.rows[i].kind = "noangle" /\ shard.rows[i].id = particle_id

(***************************************************************************)
(* The worker pool, lib.rs:193: experiment_dirs.par_iter().for_each(..).   *)
(* The pool halves the list of directories, always once and then as often  *)
(* as it has idle threads, and runs each piece it ends with as one         *)
(* sequential loop; the pieces run concurrently.                           *)
(***************************************************************************)
\* the ways lo..hi is cut: as one piece (unless it must be split), or at its
\* middle with each half cut in turn
RECURSIVE LeafCuts(_, _, _)
LeafCuts(lo, hi, must_split) ==
    LET len == hi - lo + 1
        mid == lo + (len \div 2)
        whole == {<< [i \in 1..len |-> lo + i - 1] >>}
    IN IF len < 2 THEN whole
       ELSE (IF must_split THEN {} ELSE whole)
            \cup {l \o r : l \in LeafCuts(lo, mid - 1, FALSE),
                           r \in LeafCuts(mid, hi, FALSE)}

\* the piece experiment e is in
LeafOf(e) == CHOOSE k \in 1..Len(leaves) : \E i \in 1..Len(leaves[k]) : leaves[k][i] = e

\* the experiments that follow e in its piece
LaterInLeaf(e) ==
    LET leaf == leaves[LeafOf(e)]
        pos == CHOOSE i \in 1..Len(leaf) : leaf[i] = e
    IN {leaf[i] : i \in (pos + 1)..Len(leaf)}

\* the experiments that precede e in its piece
EarlierInLeaf(e) ==
    LET leaf == leaves[LeafOf(e)]
        pos == CHOOSE i \in 1..Len(leaf) : leaf[i] = e
    IN {leaf[i] : i \in 1..(pos - 1)}

Experiments == 1..config.experiment_dirs

(***************************************************************************)
(* The pole figures of one particle, lib.rs:533-639: the grid of pole      *)
(* figures, one per requested axis and mineral, from the count matrices    *)
(* of the density estimator.  A count matrix is SpherePoints x SpherePoints *)
(* and its entries are positive (sums of exponentials, lib.rs:722-731).    *)
(***************************************************************************)
\* the values a count takes: the background and two peak heights
CountValues == {1, 3, 7}

\* the count matrices: the background everywhere and one cell at any height
CountMatrices ==
    {[i \in 1..SpherePoints |-> [j \in 1..SpherePoints |->
          IF i = pi /\ j = pj THEN peak ELSE 1]] :
       pi \in 1..SpherePoints, pj \in 1..SpherePoints, peak \in CountValues}

\* the requested axes and minerals of the pole_figures section
FigureLayouts ==
    {[axes |-> <<"AAxis">>, minerals |-> <<"Olivine">>],
     [axes |-> <<"AAxis", "BAxis">>, minerals |-> <<"Olivine">>],
     [axes |-> <<"AAxis", "BAxis">>, minerals |-> <<"Olivine", "Enstatite">>],
     [axes |-> <<"AAxis", "BAxis", "CAxis">>, minerals |-> <<"Enstatite">>],
     [axes |-> <<"CAxis">>, minerals |-> <<"Enstatite", "Olivine">>]}

\* lib.rs:535-541: the pole figure the grid is filled with at first
PoleFigure(crystal_axis, mineral, counts, max_count) ==
    [crystal_axis |-> crystal_axis, mineral |-> mineral,
     counts |-> counts, max_count |-> max_count]

\* lib.rs:588-598: the largest count of the rows and columns
\* 0 .. shape - 2, found by a scan that starts from 0.0 and takes every
\* count greater than the value so far
MaxCountValue(counts) ==
    LET n == Len(counts) - 1
        F[k \in 0..(n * n)] ==
            IF k = 0 THEN 0
            ELSE LET i == ((k - 1) \div n) + 1
                     j == ((k - 1) % n) + 1
                 IN IF counts[i][j] > F[k-1] THEN counts[i][j] ELSE F[k-1]
    IN F[n * n]

\* lib.rs:612-630, a variant: one maximum over the figures of all minerals
SharedMaxCountOfGrid(pole_figure_grid, figure_vertical_axis) ==
    LET H == Len(pole_figure_grid)
        V == Len(pole_figure_grid[1])
        F[k \in 0..(H * V)] ==
            IF k = 0 THEN 0
            ELSE LET h == ((k - 1) \div V) + 1
                     v == ((k - 1) % V) + 1
                 IN IF pole_figure_grid[h][v].max_count > F[k-1]
                    THEN pole_figure_grid[h][v].max_count
                    ELSE F[k-1]
    IN F[H * V]

\* lib.rs:615-630: the largest max_count of the figures of one mineral (one
\* figure_vertical_axis), found by a scan over the axes that starts from 0.0
SharedMaxCount(pole_figure_grid, figure_vertical_axis) ==
    LET F[h \in 0..Len(pole_figure_grid)] ==
            IF h = 0 THEN 0
            ELSE IF pole_figure_grid[h][figure_vertical_axis].max_count > F[h-1]
                 THEN pole_figure_grid[h][figure_vertical_axis].max_count
                 ELSE F[h-1]
    IN F[Len(pole_figure_grid)]

\* lib.rs:428-463: the six lists of axis vectors of a particle, one for
\* each mineral and crystal axis: particle_olivine_a_axis_vectors is
\* <<"Olivine", "AAxis">>, and so on
VectorLists == {"Olivine", "Enstatite"} \X {"AAxis", "BAxis", "CAxis"}

\* lib.rs:553-578, a variant: the list of the olivine is taken for both
\* minerals
SelectAxisVectorsOfOlivine(axis, mineral) == <<"Olivine", axis>>

\* lib.rs:553-578: match axis { .. match mineral { .. } }, the list the
\* rows of particle_arrays are taken from
SelectAxisVectors(axis, mineral) ==
    CASE axis = "AAxis" ->
           (CASE mineral = "Olivine" -> <<"Olivine", "AAxis">>
              [] mineral = "Enstatite" -> <<"Enstatite", "AAxis">>)
      [] axis = "BAxis" ->
           (CASE mineral = "Olivine" -> <<"Olivine", "BAxis">>
              [] mineral = "Enstatite" -> <<"Enstatite", "BAxis">>)
      [] axis = "CAxis" ->
           (CASE mineral = "Olivine" -> <<"Olivine", "CAxis">>
              [] mineral = "Enstatite" -> <<"Enstatite", "CAxis">>)

\* the counts of a list that no figure is asked for: the background
BackgroundCounts == [i \in 1..SpherePoints |-> [j \in 1..SpherePoints |-> 1]]

\* the counts gaussian_orientation_counts gives for each of the six lists:
\* the matrix counts[h][v] for the list of axis h and mineral v of the layout
CountsOfLists(layout, counts) ==
    [list \in VectorLists |->
        LET Places == {p \in (1..Len(layout.axes)) \X (1..Len(layout.minerals)) :
                          list = <<layout.minerals[p[2]], layout.axes[p[1]]>>}
        IN IF Places = {} THEN BackgroundCounts
           ELSE LET p == CHOOSE q \in Places : TRUE IN counts[p[1]][p[2]]]

\* lib.rs:552-608: the figure of one turn of the inner loop: its axis, its
\* mineral, the count matrix of its list and the largest count found in it
FilledPoleFigure(axis, mineral, counts) ==
    LET cell_counts == counts[SelectAxisVectors(axis, mineral)]
    IN PoleFigure(axis, mineral, cell_counts, MaxCountValue(cell_counts))

\* lib.rs:612-639: the figures of one mineral get the largest of their
\* max_counts
SharedPoleFigureGrid(pole_figure_grid) ==
    [h \in 1..Len(pole_figure_grid) |-> [v \in 1..Len(pole_figure_grid[h]) |->
        [pole_figure_grid[h][v] EXCEPT !.max_count = SharedMaxCount(pole_figure_grid, v)]]]

\* lib.rs:289: let sphere_points = 301
SpherePointsOfRun == 301

\* lib.rs:583-588: the counts of a figure in a run of process_configuration,
\* kept as what gaussian_orientation_counts makes them from, the list of
\* axis vectors and the number of its vectors (one for each row found for
\* the particle), and as the shape of the matrix
CountsOfRun(list, n_grains) ==
    [list |-> list, npts |-> n_grains,
     shape |-> <<SpherePointsOfRun, SpherePointsOfRun>>]

\* lib.rs:548-610 in a run: every cell of the grid gets its axis, its
\* mineral, the counts of its list and the largest count found in them;
\* a largest count is kept as the set of the cells it is the largest count
\* of, here the cell itself
FilledFiguresOfRun(axes, minerals, n_grains) ==
    [h \in 1..Len(axes) |-> [v \in 1..Len(minerals) |->
        PoleFigure(axes[h], minerals[v],
                   CountsOfRun(SelectAxisVectors(axes[h], minerals[v]), n_grains),
                   {<<h, v>>})]]

\* lib.rs:612-639, a variant: the grid is handed on as it was filled
UnsharedFiguresOfRun(pole_figure_grid) == pole_figure_grid

\* lib.rs:612-639 in a run: the figures of one mineral get the largest of
\* their max_counts: the largest count of all their cells
SharedFiguresOfRun(pole_figure_grid) ==
    [h \in 1..Len(pole_figure_grid) |-> [v \in 1..Len(pole_figure_grid[h]) |->
        [pole_figure_grid[h][v] EXCEPT
            !.max_count = UNION {pole_figure_grid[k][v].max_count :
                                    k \in 1..Len(pole_figure_grid)}]]]

\* lib.rs:533-655: the grid of pole figures handed to make_pole_figures for
\* a particle found with n_grains rows
PoleFigureGridOfRun(axes, minerals, n_grains) ==
    SharedFiguresOfRun(FilledFiguresOfRun(axes, minerals, n_grains))

(***************************************************************************)
(* The state of one unit of work and its steps.                            *)
(***************************************************************************)
\* the locals of the closure: pc is where the unit stands ("pending" before
\* it starts, "time" at the head of the loop over the requested times,
\* "scan" at the head of the while loop over the shards, "done", "panicked",
\* "found" from the scan that found the particle up to the call of
\* make_pole_figures, "render" inside that call, "skipped" when its piece
\* unwound before it started); ti and pi are the positions in config.times
\* and config.particle_ids; start_rank is the rank_id the scan of the
\* current particle began with, opened the ranks whose grain shard it has
\* opened so far, rows the positions of the rows the axis vectors of the
\* current particle were pushed from, and waits the number of times the
\* unit has handed work on the grid and the counts of the current particle
\* to the pool and got it back
InitialUnit ==
    [pc |-> "pending", timestep_to_time |-> <<>>, ti |-> 0, time_step |-> 0,
     pi |-> 0, rank_id |-> 0, start_rank |-> 0, opened |-> {}, rows |-> <<>>,
     waits |-> 0]

\* lib.rs:296-305: the head of the loop over particle_ids, entered with the
\* rank_id the unit holds: lib.rs:285 sets rank_id once per requested time
EnterParticle(u, next_pi) ==
    [u EXCEPT !.pc = "scan", !.pi = next_pi, !.start_rank = u.rank_id, !.opened = {},
              !.rows = <<>>, !.waits = 0]

\* lib.rs:244, 664-665: the head of the loop over times, or its end
EnterTime(u, next_ti) ==
    IF next_ti <= Len(config.times)
    THEN [u EXCEPT !.pc = "time", !.ti = next_ti, !.pi = 0, !.opened = {}, !.rows = <<>>,
                   !.waits = 0]
    ELSE [u EXCEPT !.pc = "done", !.opened = {}, !.rows = <<>>, !.waits = 0]

\* lib.rs:662-663: "go to next id": the next particle id of this time, or
\* the next requested time
NextParticle(u) ==
    IF u.pi < Len(config.particle_ids)
    THEN EnterParticle(u, u.pi + 1)
    ELSE EnterTime(u, u.ti + 1)

\* a panic unwinds the unit and the sequential loop of its piece: the
\* experiments that follow it in the piece are never started
Panic(e, u) ==
    unit' = [x \in Experiments |->
                IF x = e THEN [u EXCEPT !.pc = "panicked"]
                ELSE IF x \in LaterInLeaf(e) THEN [unit[x] EXCEPT !.pc = "skipped"]
                ELSE unit[x]]

\* lib.rs:290, 517-519: the sampling grid the iteration that found the
\* particle builds before it fills the pole figures: what
\* create_lambert_equal_area_gridpoint(sphere_points, "upper") is called with
LambertOfIteration == [sphere_points |-> SpherePointsOfRun, hemisphere |-> "upper"]

\* an entry of the unit's log: a directory made, a particle reported as not
\* found, or a call of make_pole_figures with the sampling grid built for
\* it and the grid of pole figures it is handed (lib.rs:517-519, 641-655)
LogEntry(kind, u, particle_id, rows, particle_record) ==
    [kind |-> kind, ti |-> u.ti, pi |-> u.pi, time_step |-> u.time_step,
     time |-> IF u.time_step + 1 \in DOMAIN u.timestep_to_time
              THEN u.timestep_to_time[u.time_step + 1] ELSE -1,
     particle_id |-> particle_id, start_rank |-> u.start_rank,
     rank_id |-> u.rank_id, opened |-> u.opened, rows |-> rows,
     n_grains |-> Len(rows), particle_record |-> particle_record,
     lambert |-> IF kind = "render" THEN LambertOfIteration ELSE <<>>,
     pole_figure_grid |-> IF kind = "render"
                          THEN PoleFigureGridOfRun(config.axes, config.minerals, Len(rows))
                          ELSE <<>>]

\* lib.rs:473-496: the zeroed record: id 0, position 0, and None in the
\* Option fields but z
DefaultParticleRecord == [id |-> 0, x |-> 0, elastic |-> FALSE]

\* lib.rs:473-512: the metadata record of particle_id in the particle shard
\* of (time_step, rank_id): the last row with that id, the zeroed record when
\* there is none
LoadParticleRecord(tree, time_step, rank_id, particle_id) ==
    LET rows == ParticleRows(tree, time_step, rank_id)
        F[i \in 0..Len(rows)] ==
            IF i = 0 THEN DefaultParticleRecord
            ELSE IF rows[i].id = particle_id THEN rows[i] ELSE F[i-1]
    IN F[Len(rows)]

(***************************************************************************)
(* The steps of process_configuration.                                     *)
(***************************************************************************)
\* the pool starts an experiment once the ones before it in its piece are done
CanStart(e) ==
    /\ result = "running"
    /\ unit[e].pc = "pending"
    /\ \A x \in EarlierInLeaf(e) : unit[x].pc = "done"

\* lib.rs:194-242: the unit reads the time table and enters the loop over
\* the requested times
StartExperiment(e) ==
    /\ CanStart(e)
    /\ config.pole_figures /\ fs[e].stat_present
    /\ ~TimeTablePanics(fs[e].stat)
    /\ unit' = [unit EXCEPT ![e] =
                   EnterTime([unit[e] EXCEPT !.timestep_to_time = TimestepToTime(fs[e].stat)], 1)]
    /\ UNCHANGED <<config, fs, leaves, log, result>>

\* lib.rs:200: pole_figures.as_ref().unwrap() panics without a pole_figures
\* section; lib.rs:203: File::open(statistics_file).unwrap() panics when the
\* statistics file is missing; lib.rs:232-236: the reader of the time table
\* panics on a kept line it cannot take a time from
StartExperimentPanics(e) ==
    /\ CanStart(e)
    /\ \/ ~config.pole_figures
       \/ ~fs[e].stat_present
       \/ TimeTablePanics(fs[e].stat)
    /\ Panic(e, unit[e])
    /\ UNCHANGED <<config, fs, leaves, log, result>>

\* lib.rs:244-296: one requested time: the timestep closest to it, the
\* output directory, rank_id = 0, and the head of the loop over particle ids
BeginTime(e) ==
    LET u == unit[e]
        output_time == config.times[u.ti]
        timed == [u EXCEPT !.time_step = ResolveTimestep(u.timestep_to_time, output_time),
                           !.rank_id = 0]
    IN /\ result = "running"
       /\ u.pc = "time"
       /\ ~ResolverPanics(u.timestep_to_time)
       /\ log' = [log EXCEPT ![e] = Append(@, LogEntry("mkdir", timed, 0, <<>>, DefaultParticleRecord))]
       /\ unit' = [unit EXCEPT ![e] =
                      IF Len(config.particle_ids) > 0
                      THEN EnterParticle(timed, 1)
                      ELSE EnterTime(timed, u.ti + 1)]
       /\ UNCHANGED <<config, fs, leaves, result>>

\* lib.rs:244-296, a variant: with an empty time table the unit takes
\* timestep 0 and goes on
BeginTimeDefaults(e) ==
    LET u == unit[e]
        timed == [u EXCEPT !.time_step = 0, !.rank_id = 0]
    IN /\ result = "running"
       /\ u.pc = "time"
       /\ ResolverPanics(u.timestep_to_time)
       /\ log' = [log EXCEPT ![e] = Append(@, LogEntry("mkdir", timed, 0, <<>>, DefaultParticleRecord))]
       /\ unit' = [unit EXCEPT ![e] =
                      IF Len(config.particle_ids) > 0
                      THEN EnterParticle(timed, 1)
                      ELSE EnterTime(timed, u.ti + 1)]
       /\ UNCHANGED <<config, fs, leaves, result>>

\* lib.rs:251, 262: the resolver panics on an empty time table
BeginTimePanics(e) ==
    /\ result = "running"
    /\ unit[e].pc = "time"
    /\ ResolverPanics(unit[e].timestep_to_time)
    /\ Panic(e, unit[e])
    /\ UNCHANGED <<config, fs, leaves, log, result>>

\* the grain shard the while loop of lib.rs:306 looks at
CurrentShard(e) == GrainShard(fs[e], unit[e].time_step, unit[e].rank_id)

CurrentParticle(e) == config.particle_ids[unit[e].pi]

Scanning(e) == result = "running" /\ unit[e].pc = "scan"

\* lib.rs:381-387, a variant: a missing shard file aborts the unit
ScanNotFoundAborts(e) ==
    /\ Scanning(e)
    /\ CurrentShard(e).kind = "absent"
    /\ Panic(e, unit[e])
    /\ UNCHANGED <<config, fs, leaves, log, result>>

\* lib.rs:381-387, a variant: a missing shard file is passed like an empty
\* one
ScanNotFoundRetries(e) ==
    /\ Scanning(e)
    /\ CurrentShard(e).kind = "absent"
    /\ unit' = [unit EXCEPT ![e].rank_id = @ + 1]
    /\ UNCHANGED <<config, fs, leaves, log, result>>

\* lib.rs:381-387, 662: the shard file of rank_id does not exist: the
\* particle is reported as not found and the loop over the shards is left
ScanNotFound(e) ==
    /\ Scanning(e)
    /\ CurrentShard(e).kind = "absent"
    /\ log' = [log EXCEPT ![e] =
                  Append(@, LogEntry("notfound", unit[e], CurrentParticle(e), <<>>,
                                     DefaultParticleRecord))]
    /\ unit' = [unit EXCEPT ![e] = NextParticle(unit[e])]
    /\ UNCHANGED <<config, fs, leaves, result>>

\* lib.rs:390-393: the shard file has length 0: on to the next rank
ScanEmpty(e) ==
    /\ Scanning(e)
    /\ CurrentShard(e).kind = "empty"
    /\ unit' = [unit EXCEPT ![e].rank_id = @ + 1]
    /\ UNCHANGED <<config, fs, leaves, log, result>>

\* whether the shard is one the loop opens and decodes (lib.rs:400-463)
Decoded(shard) == shard.kind \in {"corrupt", "data"}

\* lib.rs:400-452: the shard does not decode, one of its rows does not
\* deserialize, or a row of the particle id has an empty angle: the unwrap
\* panics
ScanDecodePanics(e) ==
    LET u == [unit[e] EXCEPT !.opened = @ \cup {unit[e].rank_id}]
    IN /\ Scanning(e)
       /\ Decoded(CurrentShard(e))
       /\ DecodePanics(CurrentShard(e), config.compressed, CurrentParticle(e))
       /\ Panic(e, u)
       /\ UNCHANGED <<config, fs, leaves, log, result>>

\* lib.rs:400-469: no row of the shard has the particle id: on to the next rank
ScanNoMatch(e) ==
    /\ Scanning(e)
    /\ Decoded(CurrentShard(e))
    /\ ~DecodePanics(CurrentShard(e), config.compressed, CurrentParticle(e))
    /\ MatchingRows(CurrentShard(e).rows, CurrentParticle(e)) = <<>>
    /\ unit' = [unit EXCEPT ![e].rank_id = @ + 1,
                            ![e].opened = @ \cup {unit[e].rank_id}]
    /\ UNCHANGED <<config, fs, leaves, log, result>>

\* lib.rs:498: File::open(particle_info_file).unwrap() panics when the
\* particle-metadata shard is missing; lib.rs:508: result.unwrap() panics on
\* a row of it that does not deserialize
MetadataPanics(tree) == tree.particle \in {"missing", "malformed"}

\* make_pole_figures.rs:114-201: with the elasticity header asked for the
\* renderer unwraps the Option fields of the metadata record, and panics on
\* a record in which they are None, as they are in the zeroed record
RendererPanics(elastisity_header, particle_record) ==
    elastisity_header /\ ~particle_record.elastic

\* lib.rs:400-470, 498-508: rows of the shard have the particle id, and the
\* particle-metadata shard of the same rank cannot be read
ScanMetadataPanics(e) ==
    LET u == [unit[e] EXCEPT !.opened = @ \cup {unit[e].rank_id}]
    IN /\ Scanning(e)
       /\ Decoded(CurrentShard(e))
       /\ ~DecodePanics(CurrentShard(e), config.compressed, CurrentParticle(e))
       /\ MatchingRows(CurrentShard(e).rows, CurrentParticle(e)) # <<>>
       /\ MetadataPanics(fs[e])
       /\ Panic(e, u)
       /\ UNCHANGED <<config, fs, leaves, log, result>>

\* lib.rs:400-512, a variant: the check of lib.rs:466-469 for a shard
\* without a row of the particle id is left out
ScanFoundUnchecked(e) ==
    LET rows == MatchingRows(CurrentShard(e).rows, CurrentParticle(e))
        u == [unit[e] EXCEPT !.opened = @ \cup {unit[e].rank_id}, !.rows = rows,
                             !.pc = "found"]
    IN /\ Scanning(e)
       /\ Decoded(CurrentShard(e))
       /\ ~DecodePanics(CurrentShard(e), config.compressed, CurrentParticle(e))
       /\ ~MetadataPanics(fs[e])
       /\ unit' = [unit EXCEPT ![e] = u]
       /\ UNCHANGED <<config, fs, leaves, log, result>>

\* lib.rs:400-512: rows of the shard have the particle id: their axis
\* vectors are pushed, file_found is set and the metadata record is read;
\* the unit goes on to lib.rs:517, where it builds the sampling grid
ScanFound(e) ==
    LET rows == MatchingRows(CurrentShard(e).rows, CurrentParticle(e))
        u == [unit[e] EXCEPT !.opened = @ \cup {unit[e].rank_id}, !.rows = rows,
                             !.pc = "found"]
    IN /\ Scanning(e)
       /\ Decoded(CurrentShard(e))
       /\ ~DecodePanics(CurrentShard(e), config.compressed, CurrentParticle(e))
       /\ rows # <<>>
       /\ ~MetadataPanics(fs[e])
       /\ unit' = [unit EXCEPT ![e] = u]
       /\ UNCHANGED <<config, fs, leaves, log, result>>

\* the metadata record the unit holds for the particle it found
FoundRecord(e) ==
    LoadParticleRecord(fs[e], unit[e].time_step, unit[e].rank_id, CurrentParticle(e))

\* lambert.rs:68, 94, 100, 111: create_lambert_equal_area_gridpoint, called
\* with "upper", hands x, y, z and their division by mag to the pool, one
\* after the other, and waits for each
LambertPoolWaits == 4

\* lib.rs:720, 724: gaussian_orientation_counts hands the absolute values
\* and the exponentials to the pool, one after the other
CountsPoolWaits == 2

\* make_pole_figures.rs:43: make_pole_figures hands the mask to the pool
MaskPoolWaits == 1

\* lib.rs:517-588: the times the unit waits for the pool between the scan
\* that found the particle and the call of make_pole_figures: for the grid,
\* and for the counts of the figure of every axis and mineral
PoolWaitsOfParticle ==
    LambertPoolWaits + CountsPoolWaits * Len(config.axes) * Len(config.minerals)

\* lambert.rs:68-111, lib.rs:720-724: the unit has handed a piece of the
\* work on the grid or on the counts of a figure to the pool and gets it
\* back; while it waits the other units take their steps
AwaitPool(e) ==
    /\ result = "running"
    /\ unit[e].pc = "found"
    /\ unit[e].waits < PoolWaitsOfParticle
    /\ unit' = [unit EXCEPT ![e].waits = @ + 1]
    /\ UNCHANGED <<config, fs, leaves, log, result>>

\* lib.rs:590-655, make_pole_figures.rs:15-50: the grid and the counts of
\* every figure are there: the maximum is shared by the figures of a
\* mineral and make_pole_figures is called, which hands the mask of the
\* figure to the pool (make_pole_figures.rs:43) and waits
CallMakePoleFigures(e) ==
    /\ result = "running"
    /\ unit[e].pc = "found"
    /\ unit[e].waits = PoolWaitsOfParticle
    /\ log' = [log EXCEPT ![e] =
                  Append(@, LogEntry("render", unit[e], CurrentParticle(e), unit[e].rows,
                                     FoundRecord(e)))]
    /\ unit' = [unit EXCEPT ![e].pc = "render"]
    /\ UNCHANGED <<config, fs, leaves, result>>

\* make_pole_figures.rs:51-560, lib.rs:656-663: make_pole_figures draws the
\* figures and returns, and the unit goes on to the next particle id
MakePoleFigures(e) ==
    /\ result = "running"
    /\ unit[e].pc = "render"
    /\ ~RendererPanics(config.elastisity_header, FoundRecord(e))
    /\ unit' = [unit EXCEPT ![e] = NextParticle(unit[e])]
    /\ UNCHANGED <<config, fs, leaves, log, result>>

\* make_pole_figures.rs:114-201: make_pole_figures panics in its header
MakePoleFiguresPanics(e) ==
    /\ result = "running"
    /\ unit[e].pc = "render"
    /\ RendererPanics(config.elastisity_header, FoundRecord(e))
    /\ Panic(e, unit[e])
    /\ UNCHANGED <<config, fs, leaves, log, result>>

Finished(e) == unit[e].pc \in {"done", "panicked", "skipped"}

\* lib.rs:193, 667: for_each returns when every piece has ended; a panic of
\* a unit is raised again in the caller, otherwise Ok(()) is returned
Finish ==
    /\ result = "running"
    /\ \A e \in Experiments : Finished(e)
    /\ result' = IF \E e \in Experiments : unit[e].pc = "panicked" THEN "panic" ELSE "ok"
    /\ UNCHANGED <<config, fs, leaves, unit, log>>

(***************************************************************************)
(* The configurations and file trees the model starts from.                *)
(***************************************************************************)
ExampleAxes == <<"AAxis", "BAxis", "CAxis">>
ExampleMinerals == <<"Olivine", "Enstatite">>

\* the pole figures a configuration asks for: the three axes of the two
\* minerals, two axes of one mineral, or one axis of one mineral
FullLayout == [axes |-> ExampleAxes, minerals |-> ExampleMinerals]
PairLayout == [axes |-> <<"AAxis", "BAxis">>, minerals |-> <<"Olivine">>]
SingleLayout == [axes |-> <<"AAxis">>, minerals |-> <<"Olivine">>]

\* the lists of requested times: timestep 0 once, twice, or after timestep 1
RequestedTimeLists == {<<0>>, <<0, 0>>, <<2, 0>>}

Config(n, pole_figures, compressed, elastisity_header, times, particle_ids, layout) ==
    [experiment_dirs |-> n, pole_figures |-> pole_figures, compressed |-> compressed,
     elastisity_header |-> elastisity_header,
     times |-> times, particle_ids |-> particle_ids,
     axes |-> layout.axes, minerals |-> layout.minerals]

\* one experiment directory, timestep 0 requested once, with any plain
\* grain shards within the bounds
InitScan ==
    \E grain \in GrainTrees(FALSE, MaxShard, MaxGrainRows) :
       \E particle_ids \in SeqsOf(ParticleIdSet, 1, MaxIds) :
          /\ config = Config(1, TRUE, FALSE, TRUE, <<0>>, particle_ids, SingleLayout)
          /\ fs = <<Tree(TRUE, StandardStat, grain, "hasid")>>
          /\ leaves = << <<1>> >>

\* one experiment directory, timestep 0 requested once, with compressed
\* grain shards with a single grain row among them
InitCompressed ==
    \E grain \in GrainTrees(TRUE, MaxShard, 1) :
       \E particle_ids \in SeqsOf(ParticleIdSet, 1, MaxIds) :
          /\ config = Config(1, TRUE, TRUE, TRUE, <<0>>, particle_ids, FullLayout)
          /\ fs = <<Tree(TRUE, StandardStat, grain, "hasid")>>
          /\ leaves = << <<1>> >>

\* one experiment directory, timestep 0 requested once, a single grain row
\* somewhere in its shards, any kind of particle-metadata shards, and the
\* elasticity header asked for as by default
\* (pole_figure_configuration.rs:116)
InitHeader ==
    \E grain \in GrainTrees(FALSE, MaxShard, 1) :
       \E particle_ids \in SeqsOf(ParticleIdSet, 1, MaxIds), particle \in ParticleModes :
          /\ config = Config(1, TRUE, FALSE, TRUE, <<0>>, particle_ids, FullLayout)
          /\ fs = <<Tree(TRUE, StandardStat, grain, particle)>>
          /\ leaves = << <<1>> >>

\* one experiment directory, timestep 0 requested once, whose one grain
\* shard holds a row with an empty angle: the row is of particle 1, which
\* is the first requested id, a later one, or not requested
InitIncomplete ==
    \E rows \in SeqsOf({GoodRow(1), GoodRow(2), IncompleteRow(1)}, 1, 2) :
       \E particle_ids \in {<<1>>, <<2>>, <<2, 1>>} :
          /\ IncompleteRow(1) \in {rows[i] : i \in 1..Len(rows)}
          /\ config = Config(1, TRUE, FALSE, TRUE, <<0>>, particle_ids, FullLayout)
          /\ fs = <<Tree(TRUE, StandardStat, <<DataShard(rows)>>, "hasid")>>
          /\ leaves = << <<1>> >>

\* the shards that hold one row of each particle id of a set of ids
SpreadShards ==
    {DataShard(<<GoodRow(1)>>), DataShard(<<GoodRow(2)>>),
     DataShard(<<GoodRow(1), GoodRow(2)>>)}

\* one experiment directory, timestep 0 requested once, whose grain shards
\* of all ranks exist and hold a row of one or of both particle ids, so that
\* the rows of an id are spread over several shards; two or more ids are
\* requested
InitSpread ==
    \E grain \in [1..MaxShard -> SpreadShards] :
       \E particle_ids \in SeqsOf(ParticleIdSet, 2, MaxIds) :
          /\ config = Config(1, TRUE, FALSE, TRUE, <<0>>, particle_ids, SingleLayout)
          /\ fs = <<Tree(TRUE, StandardStat, grain, "hasid")>>
          /\ leaves = << <<1>> >>

\* statistics files of one or two lines, among them marker lines without a
\* time, with a time that is no number and with a field more
StatFiles ==
    SeqsOf({StatLine(FALSE, TRUE, 0), StatLine(TRUE, TRUE, 0), StatLine(FALSE, FALSE, 0),
            NoTimeStatLine, TextTimeStatLine, LongStatLine}, 1, 2)

\* one experiment directory with any of these statistics files
InitStat ==
    \E stat \in StatFiles :
       /\ config = Config(1, TRUE, FALSE, TRUE, <<0>>, <<1>>, FullLayout)
       /\ fs = <<Tree(TRUE, stat, <<DataShard(<<GoodRow(1)>>)>>, "hasid")>>
       /\ leaves = << <<1>> >>

\* one experiment directory with a single grain row somewhere in its shards,
\* any list of requested times and any kind of particle-metadata shards,
\* the elasticity header switched off
InitTimes ==
    \E grain \in GrainTrees(FALSE, MaxShard, 1) :
       \E times \in RequestedTimeLists, particle_ids \in SeqsOf(ParticleIdSet, 1, MaxIds),
          particle \in ParticleModes :
             /\ config = Config(1, TRUE, FALSE, FALSE, times, particle_ids, PairLayout)
             /\ fs = <<Tree(TRUE, StandardStat, grain, particle)>>
             /\ leaves = << <<1>> >>

\* the trees of the experiments that run side by side: one that renders
\* particle 1, one without shards, one without the statistics file, one
\* whose statistics file has no marker line, one with a malformed row
SmallTrees ==
    {Tree(TRUE, StandardStat, <<DataShard(<<GoodRow(1)>>)>>, "hasid"),
     Tree(TRUE, StandardStat, <<>>, "hasid"),
     Tree(FALSE, <<>>, <<DataShard(<<GoodRow(1)>>)>>, "hasid"),
     Tree(TRUE, <<StatLine(TRUE, TRUE, 0)>>, <<DataShard(<<GoodRow(1)>>)>>, "hasid"),
     Tree(TRUE, StandardStat, <<DataShard(<<BadRow>>)>>, "hasid")}

\* several experiment directories, each with one of the small trees
InitParallel ==
    /\ \E n \in 2..MaxExp, pole_figures \in BOOLEAN :
          config = Config(n, pole_figures, FALSE, TRUE, <<0>>, <<1>>, SingleLayout)
    /\ fs \in [1..config.experiment_dirs -> SmallTrees]
    /\ leaves \in LeafCuts(1, config.experiment_dirs, TRUE)

\* the helpers on their own are not in use while process_configuration runs
CalcIdle ==
    /\ resolver = [pc |-> "idle"]
    /\ assembly = [pc |-> "idle"]
    /\ euler = [pc |-> "idle"]
    /\ output = [pc |-> "idle"]
    /\ density = [pc |-> "idle"]

Init ==
    /\ \/ InitScan \/ InitCompressed \/ InitIncomplete \/ InitSpread
       \/ InitHeader \/ InitTimes \/ InitStat \/ InitParallel
    /\ unit = [e \in Experiments |-> InitialUnit]
    /\ log = [e \in Experiments |-> <<>>]
    /\ result = "running"
    /\ CalcIdle

Next ==
    \/ \E e \in Experiments : StartExperiment(e) /\ UNCHANGED calcVars
    \/ \E e \in Experiments : StartExperimentPanics(e) /\ UNCHANGED calcVars
    \/ \E e \in Experiments : BeginTime(e) /\ UNCHANGED calcVars
    \/ \E e \in Experiments : BeginTimePanics(e) /\ UNCHANGED calcVars
    \/ \E e \in Experiments : ScanNotFound(e) /\ UNCHANGED calcVars
    \/ \E e \in Experiments : ScanEmpty(e) /\ UNCHANGED calcVars
    \/ \E e \in Experiments : ScanDecodePanics(e) /\ UNCHANGED calcVars
    \/ \E e \in Experiments : ScanNoMatch(e) /\ UNCHANGED calcVars
    \/ \E e \in Experiments : ScanMetadataPanics(e) /\ UNCHANGED calcVars
    \/ \E e \in Experiments : ScanFound(e) /\ UNCHANGED calcVars
    \/ \E e \in Experiments : AwaitPool(e) /\ UNCHANGED calcVars
    \/ \E e \in Experiments : CallMakePoleFigures(e) /\ UNCHANGED calcVars
    \/ \E e \in Experiments : MakePoleFigures(e) /\ UNCHANGED calcVars
    \/ \E e \in Experiments : MakePoleFiguresPanics(e) /\ UNCHANGED calcVars
    \/ Finish /\ UNCHANGED calcVars

vars == <<config, fs, leaves, unit, log, result, resolver, assembly, euler, output, density>>

Spec == Init /\ [][Next]_vars

\* process_configuration is not running while a helper is looked at on its own
PipelineIdle ==
    /\ config = Config(0, FALSE, FALSE, FALSE, <<>>, <<>>, FullLayout)
    /\ fs = <<>>
    /\ leaves = <<>>
    /\ unit = <<>>
    /\ log = <<>>
    /\ result = "idle"

(***************************************************************************)
(* The Time Resolver on its own: any time table over the grid of times and *)
(* any requested time.  Times are in tenths, so that the requested times   *)
(* 1.4, 1.5 and 1.6 over the table 0.0, 1.0, 2.0, 5.0 are 14, 15 and 16    *)
(* over 0, 10, 20, 50.                                                     *)
(***************************************************************************)
TimeGrid == {0, 10, 20, 50}
RequestedTimes == {-5, 0, 5, 10, 14, 15, 16, 20, 35, 50, 60}

\* the lines of a statistics file: a comment or not, with the marker or
\* without, with one of two times in its field 1
StatLineSet ==
    {StatLine(comment, marker, time) :
        comment \in BOOLEAN, marker \in BOOLEAN, time \in {0, 10}}
    \cup {NoTimeStatLine, TextTimeStatLine, LongStatLine}

\* the resolver starts from a time table and a requested time, or from the
\* lines of a statistics file the table is yet to be read from
InitTime ==
    /\ \/ \E times \in SeqsOf(TimeGrid, 0, MaxTable), output_time \in RequestedTimes :
             resolver = [pc |-> "request", lines |-> <<>>, timestep_to_time |-> times,
                         output_time |-> output_time, time_step |-> 0]
       \/ \E lines \in SeqsOf(StatLineSet, 0, MaxStatLines) :
             resolver = [pc |-> "file", lines |-> lines, timestep_to_time |-> <<>>,
                         output_time |-> 0, time_step |-> 0]
    /\ assembly = [pc |-> "idle"]
    /\ euler = [pc |-> "idle"]
    /\ output = [pc |-> "idle"]
    /\ density = [pc |-> "idle"]
    /\ PipelineIdle

\* lib.rs:203-238: the time table is read from the statistics file
ReadTimeTable ==
    /\ resolver.pc = "file"
    /\ ~TimeTablePanics(resolver.lines)
    /\ resolver' = [resolver EXCEPT
                       !.pc = "request",
                       !.timestep_to_time = TimestepToTime(resolver.lines)]
    /\ UNCHANGED <<assembly, euler, output, density>>
    /\ UNCHANGED pipelineVars

\* lib.rs:229-238: the reader panics on a kept line it cannot take a time
\* from, and no time table comes to be ("unread")
ReadTimeTablePanics ==
    /\ resolver.pc = "file"
    /\ TimeTablePanics(resolver.lines)
    /\ resolver' = [resolver EXCEPT !.pc = "unread"]
    /\ UNCHANGED <<assembly, euler, output, density>>
    /\ UNCHANGED pipelineVars

\* lib.rs:244-271: the timestep closest to the requested time
ResolveTime ==
    /\ resolver.pc = "request"
    /\ ~ResolverPanics(resolver.timestep_to_time)
    /\ resolver' = [resolver EXCEPT
                       !.pc = "resolved",
                       !.time_step = ResolveTimestep(resolver.timestep_to_time,
                                                     resolver.output_time)]
    /\ UNCHANGED <<assembly, euler, output, density>>
    /\ UNCHANGED pipelineVars

\* lib.rs:251, 262: the resolver panics on an empty time table
ResolveTimePanics ==
    /\ resolver.pc = "request"
    /\ ResolverPanics(resolver.timestep_to_time)
    /\ resolver' = [resolver EXCEPT !.pc = "panicked"]
    /\ UNCHANGED <<assembly, euler, output, density>>
    /\ UNCHANGED pipelineVars

NextTime == ReadTimeTable \/ ReadTimeTablePanics \/ ResolveTime \/ ResolveTimePanics

SpecTime == InitTime /\ [][NextTime]_vars

(***************************************************************************)
(* The pole-figure assembly on its own: any layout of axes and minerals    *)
(* and any count matrices for the lists of the layout.                     *)
(***************************************************************************)
InitAssemble ==
    /\ \E layout \in FigureLayouts :
          \E counts \in [1..Len(layout.axes) -> [1..Len(layout.minerals) -> CountMatrices]] :
             assembly = [pc |-> "counts", axes |-> layout.axes, minerals |-> layout.minerals,
                         counts |-> CountsOfLists(layout, counts),
                         figure_horizontal_axis |-> 0, figure_vertical_axis |-> 0,
                         waits |-> 0,
                         pole_figure_grid |->
                             [h \in 1..Len(layout.axes) |-> [v \in 1..Len(layout.minerals) |->
                                 PoleFigure("AAxis", "Olivine", <<>>, 0)]]]
    /\ resolver = [pc |-> "idle"]
    /\ euler = [pc |-> "idle"]
    /\ output = [pc |-> "idle"]
    /\ density = [pc |-> "idle"]
    /\ PipelineIdle

\* lib.rs:720, 724 under lib.rs:583-588: gaussian_orientation_counts, called
\* for the cell the loops stand at, waits for the pool twice
AwaitCounts ==
    /\ assembly.pc = "counts"
    /\ assembly.waits < CountsPoolWaits
    /\ assembly' = [assembly EXCEPT !.waits = @ + 1]
    /\ UNCHANGED <<resolver, euler, output, density>>
    /\ UNCHANGED pipelineVars

\* lib.rs:549-610: one turn of the inner loop, from the return of
\* gaussian_orientation_counts on: the cell the loops stand at gets its
\* axis, its mineral, its count matrix and the largest count found in it,
\* and the loops move to the next mineral or, after the last mineral, to
\* the next axis; the grid is filled when the last axis is done
FillPoleFigure ==
    /\ assembly.pc = "counts"
    /\ assembly.waits = CountsPoolWaits
    /\ LET h == assembly.figure_horizontal_axis
           v == assembly.figure_vertical_axis
           row_done == v + 1 = Len(assembly.minerals)
       IN assembly' = [assembly EXCEPT
              !.pole_figure_grid[h + 1][v + 1] =
                  FilledPoleFigure(assembly.axes[h + 1], assembly.minerals[v + 1],
                                   assembly.counts),
              !.figure_vertical_axis = IF row_done THEN 0 ELSE v + 1,
              !.figure_horizontal_axis = IF row_done THEN h + 1 ELSE h,
              !.waits = 0,
              !.pc = IF row_done /\ h + 1 = Len(assembly.axes)
                     THEN "filled" ELSE "counts"]
    /\ UNCHANGED <<resolver, euler, output, density>>
    /\ UNCHANGED pipelineVars

\* lib.rs:612-639: the figures of one mineral get the largest of their
\* max_counts; the grid is then handed to make_pole_figures (lib.rs:641-655)
ShareMaxCount ==
    /\ assembly.pc = "filled"
    /\ assembly' = [assembly EXCEPT
                       !.pc = "shared",
                       !.pole_figure_grid = SharedPoleFigureGrid(assembly.pole_figure_grid)]
    /\ UNCHANGED <<resolver, euler, output, density>>
    /\ UNCHANGED pipelineVars

NextAssemble == AwaitCounts \/ FillPoleFigure \/ ShareMaxCount

SpecAssemble == InitAssemble /\ [][NextAssemble]_vars

(***************************************************************************)
(* Numbers of the Euler-angle conversions.  An f64 value is modelled by    *)
(* r + e * TinyAngle with exact fractions r and e, where TinyAngle stands  *)
(* for 1.05e-8: an angle so small that its cosine is 1.0 in f64 and its    *)
(* sine is the angle itself.  The product of two TinyAngle terms, 1.1e-16, *)
(* is below the resolution of f64 next to a term of size 1 and is dropped. *)
(* A value of size 1e-17, as a matrix made from angles in f64 has in place *)
(* of a zero, is kept by its sign t, and only where r and e are zero: next *)
(* to anything else f64 rounds it away.                                    *)
(* A fraction is [n, d] in lowest terms with d > 0.  An angle is the point *)
(* (cos, sin) it has on the unit circle together with its number of full   *)
(* turns: it is the point's angle in [0, 2 pi) plus 2 pi * turns.          *)
(***************************************************************************)
RECURSIVE Gcd(_, _)
Gcd(a, b) == IF b = 0 THEN a ELSE Gcd(b, a % b)

Rat(n, d) ==
    LET g == Gcd(Abs(n), Abs(d))
        sign == IF d < 0 THEN -1 ELSE 1
    IN [n |-> sign * (n \div g), d |-> sign * (d \div g)]

RatZero == Rat(0, 1)
RatOne == Rat(1, 1)
RatNeg(a) == [n |-> -a.n, d |-> a.d]
RatAbs(a) == [n |-> Abs(a.n), d |-> a.d]
RatAdd(a, b) ==
    LET l == (a.d \div Gcd(a.d, b.d)) * b.d
    IN Rat(a.n * (l \div a.d) + b.n * (l \div b.d), l)
RatSub(a, b) == RatAdd(a, RatNeg(b))
RatMul(a, b) == Rat(a.n * b.n, a.d * b.d)
RatDiv(a, b) == Rat(a.n * b.d, a.d * b.n)
RatLess(a, b) == a.n * b.d < b.n * a.d

\* the root of a fraction that is the square of a fraction
Isqrt(n) == CHOOSE r \in 0..n : r * r = n
RatSqrt(a) == [n |-> Isqrt(a.n), d |-> Isqrt(a.d)]

\* the f64 value r + e * TinyAngle and the arithmetic of f64 on such values;
\* f64::NAN is the value with the fraction 0/0, and every operation on a NaN
\* gives a NaN
Num(r, e) == [r |-> r, e |-> e, t |-> 0]
Exact(n, d) == Num(Rat(n, d), RatZero)
NumZero == Exact(0, 1)
NumOne == Exact(1, 1)
NumNaN == Num([n |-> 0, d |-> 0], RatZero)
IsNaN(a) == a.r.d = 0

\* the f64 value 1e-17 (sign 1) or -1e-17 (sign -1)
NumTiny(sign) == [r |-> RatZero, e |-> RatZero, t |-> sign]

\* -1, 0 or 1 as the value is below, at or above 0.0
NumSign(a) ==
    IF a.r.n # 0 THEN (IF a.r.n < 0 THEN -1 ELSE 1)
    ELSE IF a.e.n # 0 THEN (IF a.e.n < 0 THEN -1 ELSE 1)
    ELSE a.t

\* what f64 keeps of r + e * TinyAngle and a term of size 1e-17 with the
\* sign t
Rounded(r, e, t) ==
    [r |-> r, e |-> e,
     t |-> IF r.n # 0 \/ e.n # 0 THEN 0 ELSE IF t > 0 THEN 1 ELSE IF t < 0 THEN -1 ELSE 0]

NumNeg(a) == IF IsNaN(a) THEN NumNaN ELSE Rounded(RatNeg(a.r), RatNeg(a.e), -a.t)
NumAdd(a, b) ==
    IF IsNaN(a) \/ IsNaN(b) THEN NumNaN
    ELSE Rounded(RatAdd(a.r, b.r), RatAdd(a.e, b.e), a.t + b.t)
NumSub(a, b) == NumAdd(a, NumNeg(b))
NumMul(a, b) ==
    IF IsNaN(a) \/ IsNaN(b) THEN NumNaN
    ELSE Rounded(RatMul(a.r, b.r), RatAdd(RatMul(a.r, b.e), RatMul(a.e, b.r)),
                 IF a.t # 0 \/ b.t # 0 THEN NumSign(a) * NumSign(b) ELSE 0)
NumDiv(a, b) ==
    IF IsNaN(a) \/ IsNaN(b) THEN NumNaN
    ELSE IF a.t # 0 /\ b.r.n # 0 THEN NumTiny(a.t * NumSign(b))
    ELSE Num(RatDiv(a.r, b.r),
             RatDiv(RatSub(RatMul(a.e, b.r), RatMul(a.r, b.e)), RatMul(b.r, b.r)))

\* the root of 1 / 1.05e-8, 9759.000729485331...
RootOfTinyAngles == <<9759, 7, 2948, 5331, 7935>>

\* the root of the fraction n / d of 0.000001 .. 2000, to sixteen places:
\* the fraction is brought into 0.01 .. 20 by factors of 100 first
RECURSIVE FixSqrtOfFraction(_, _)
FixSqrtOfFraction(n, d) ==
    IF n >= 20 * d THEN FixScale(FixSqrtOfFraction(n, d * 100), 10)
    ELSE IF n * 100 < d THEN FixDivInt(FixSqrtOfFraction(n * 100, d), 10)
    ELSE FixSqrt(FixOfFraction(n, d))

\* the value of the first eight digits of a, in units of 1 / Limb
FixInLimbs(a) == Rat(a[1] * Limb + a[2], Limb)

\* f64::sqrt: NaN below 0.0; the root of e * 1.05e-8 is
\* sqrt(e) * sqrt(1 / 1.05e-8) * 1.05e-8, kept to four decimal places of
\* 1.05e-8, and the root of 1e-17 is 3.2e-9, 3/10 of 1.05e-8
NumSqrt(a) ==
    IF IsNaN(a) \/ NumSign(a) < 0 THEN NumNaN
    ELSE IF a.r.n # 0
         THEN Num(RatSqrt(a.r), RatDiv(a.e, RatMul(Rat(2, 1), RatSqrt(a.r))))
    ELSE IF a.e.n # 0
         THEN Num(RatZero,
                  FixInLimbs(FixMul(FixSqrtOfFraction(a.e.n, a.e.d), RootOfTinyAngles)))
    ELSE IF a.t # 0 THEN Num(RatZero, Rat(3, 10))
    ELSE NumZero

Angle(cos, sin, turns) == [cos |-> cos, sin |-> sin, turns |-> turns]
ZeroAngle == Angle(NumOne, NumZero, 0)
\* the angle 1.05e-8 and the angle pi - 1.05e-8
TinyAngle == Angle(NumOne, Num(RatZero, RatOne), 0)
NearPiAngle == Angle(NumNeg(NumOne), Num(RatZero, RatOne), 0)

\* a variant of f64::cos: the sine in its place
CosAsSin(a) == a.sin

\* f64::cos
Cos(a) == a.cos

\* f64::sin
Sin(a) == a.sin

\* the value lies in [-1, 1]
InCosineRange(x) ==
    /\ ~IsNaN(x)
    /\ NumSign(NumSub(NumOne, x)) >= 0
    /\ NumSign(NumAdd(NumOne, x)) >= 0

\* f64::acos: the angle in [0, pi] with the cosine x, and NaN for an x
\* outside [-1, 1]
Acos(x) ==
    IF ~InCosineRange(x) THEN Angle(NumNaN, NumNaN, 0)
    ELSE Angle(x, NumSqrt(NumSub(NumOne, NumMul(x, x))), 0)

\* f64::atan2 on two zeros, by their signs: atan2(0.0, 0.0) = 0.0,
\* atan2(-0.0, 0.0) = -0.0, atan2(0.0, -0.0) = pi, atan2(-0.0, -0.0) = -pi
Atan2OfZeros(y_negative, x_negative) ==
    IF ~x_negative THEN ZeroAngle
    ELSE Angle(NumNeg(NumOne), NumZero, IF y_negative THEN -1 ELSE 0)

\* the angle in (-pi, pi] of the point (x, y) at the distance h from (0, 0)
Atan2AtDistance(y, x, h) ==
    LET sin == NumDiv(y, h)
    IN Angle(NumDiv(x, h), sin, IF NumSign(sin) < 0 THEN -1 ELSE 0)

\* f64::atan2 of a point with a coordinate above the resolution: the angle
\* in (-pi, pi] of the point (x, y)
Atan2OfPoint(y, x) ==
    Atan2AtDistance(y, x, NumSqrt(NumAdd(NumMul(x, x), NumMul(y, y))))

\* the coordinate in units of 1.05e-8, in which 1e-17 is 0.0907 * 1.05e-8
InTinyAngles(a) == Num(a.e, Rat(907 * a.t, 10000))

\* f64::atan2: the angle in (-pi, pi] of the point (x, y); for the point
\* (0.0, 0.0) the angle 0.0, and NaN for a NaN.  The angle of a point is
\* that of the point with both coordinates in units of 1.05e-8, and that of
\* a point of size 1e-17 on an axis is the angle of the axis.
Atan2(y, x) ==
    IF IsNaN(x) \/ IsNaN(y) THEN Angle(NumNaN, NumNaN, 0)
    ELSE IF NumSign(x) = 0 /\ NumSign(y) = 0 THEN Atan2OfZeros(FALSE, FALSE)
    ELSE IF x.r.n # 0 \/ y.r.n # 0 THEN Atan2OfPoint(y, x)
    ELSE IF x.e.n # 0 \/ y.e.n # 0 THEN Atan2OfPoint(InTinyAngles(y), InTinyAngles(x))
    ELSE Atan2OfPoint(Exact(y.t, 1), Exact(x.t, 1))

\* the point of the angle lies in the half [pi, 2 pi) of the circle
LowerHalf(a) == NumSign(a.sin) < 0 \/ (NumSign(a.sin) = 0 /\ NumSign(a.cos) < 0)

\* the point of a comes before the point of b on the way from 0 to 2 pi
PointBefore(a, b) ==
    \/ ~LowerHalf(a) /\ LowerHalf(b)
    \/ /\ LowerHalf(a) = LowerHalf(b)
       /\ NumSign(NumSub(NumMul(a.cos, b.sin), NumMul(a.sin, b.cos))) > 0

\* the unary minus of f64 on an angle
AngleNeg(a) ==
    Angle(a.cos, NumNeg(a.sin),
          IF NumSign(a.sin) = 0 /\ NumSign(a.cos) > 0 THEN -a.turns ELSE -a.turns - 1)

\* the + of f64 on two angles: the point of the sum, and a turn more when
\* the way from the point of a on by the point angle of b passes 2 pi: the
\* point of the sum then comes before that of a, or it is the point of a,
\* which f64 keeps when b is 1e-17 short of a full turn
AngleAdd(a, b) ==
    LET point == Angle(NumSub(NumMul(a.cos, b.cos), NumMul(a.sin, b.sin)),
                       NumAdd(NumMul(a.sin, b.cos), NumMul(a.cos, b.sin)), 0)
        wrap == IF \/ PointBefore(point, a)
                   \/ (point.cos = a.cos /\ point.sin = a.sin /\ LowerHalf(b))
                THEN 1 ELSE 0
    IN [point EXCEPT !.turns = a.turns + b.turns + wrap]

\* the - of f64 on two angles
AngleSub(a, b) == AngleAdd(a, AngleNeg(b))

\* the angle with the cosine 1.0 and the sine -1e-17: with no turn on top
\* it is the f64 value 2.0 * PI itself, which is the f64 next to 2 pi - 1e-17
IsFullTurn(a) == a.cos = NumOne /\ a.sin = NumTiny(-1)

\* lib.rs:772-777: angle - 2 pi * floor(angle / (2 pi)).  For the angle
\* -1e-17 the quotient is -1.6e-18 and its floor -1.0, and -1e-17 + 2 pi is
\* 2.0 * PI in f64; for 2.0 * PI itself, and for a whole number of turns
\* with 1e-17 on top or missing, the result is 0.0
ReduceAngle(a) ==
    IF IsFullTurn(a) /\ a.turns # -1 THEN ZeroAngle
    ELSE IF a.cos = NumOne /\ a.sin = NumTiny(1) /\ a.turns # 0 THEN ZeroAngle
    ELSE [a EXCEPT !.turns = 0]

(***************************************************************************)
(* The Euler-angle conversions, lib.rs:670-695 and lib.rs:740-779.  A      *)
(* matrix is a sequence of three rows; rotation_matrix[[i, j]] of the      *)
(* source is rotation_matrix[i+1][j+1], euler_angles[k] is                 *)
(* euler_angles[k+1].                                                      *)
(***************************************************************************)
\* lib.rs:670-695
EulerAnglesToRotationMatrix(euler_angles) ==
    LET c0 == Cos(euler_angles[1])
        s0 == Sin(euler_angles[1])
        c1 == Cos(euler_angles[2])
        s1 == Sin(euler_angles[2])
        c2 == Cos(euler_angles[3])
        s2 == Sin(euler_angles[3])
    IN << << NumSub(NumMul(c2, c0), NumMul(NumMul(c1, s0), s2)),
             NumSub(NumMul(NumNeg(c2), s0), NumMul(NumMul(c1, c0), s2)),
             NumMul(NumNeg(s2), s1) >>,
          << NumAdd(NumMul(s2, c0), NumMul(NumMul(c1, s0), c2)),
             NumAdd(NumMul(NumNeg(s2), s0), NumMul(NumMul(c1, c0), c2)),
             NumMul(c2, s1) >>,
          << NumMul(NumNeg(s1), s0),
             NumMul(NumNeg(s1), c0),
             c1 >> >>

\* lib.rs:436-441, 453-458: the rows of the matrix are pushed as the a-, b-
\* and c-axis vector of the grain
AAxisVector(rotation_matrix) == rotation_matrix[1]
BAxisVector(rotation_matrix) == rotation_matrix[2]
CAxisVector(rotation_matrix) == rotation_matrix[3]

\* lib.rs:750: theta != 0.0 && theta != PI, for theta = acos(..): acos gives
\* 0.0 for the cosine 1.0 only and PI for the cosine -1.0 only
ThetaIsZero(theta) == theta.cos = NumOne
ThetaIsPi(theta) == theta.cos = NumNeg(NumOne)

\* lib.rs:760-764, a variant: phi2 as for theta = pi, also when theta is 0
GimbalLockPhi2AsForPi(theta, phi1, rotation_matrix) ==
    AngleAdd(phi1, Atan2(rotation_matrix[1][2], rotation_matrix[1][1]))

\* lib.rs:760-764: phi2 when theta is 0 or pi
GimbalLockPhi2(theta, phi1, rotation_matrix) ==
    IF ThetaIsZero(theta)
    THEN AngleSub(AngleNeg(phi1), Atan2(rotation_matrix[1][2], rotation_matrix[1][1]))
    ELSE AngleAdd(phi1, Atan2(rotation_matrix[1][2], rotation_matrix[1][1]))

\* lib.rs:751-754: atan2 of two quotients; a zero entry of the matrix is
\* 0.0, so that a quotient of it by a divisor below zero is -0.0 (in the
\* branch of lib.rs:750 sin(theta) is above zero, and a matrix made by
\* euler_angles_to_rotation_matrix has no two zeros in these places there).
\* atan2(-0.0, x) is -pi for an x below zero, where atan2(0.0, x) is pi
Atan2OfQuotients(y, y_divisor, x, x_divisor) ==
    LET numbers == ~IsNaN(y) /\ ~IsNaN(x) /\ ~IsNaN(y_divisor) /\ ~IsNaN(x_divisor)
        y_negative == NumSign(y) = 0 /\ NumSign(y_divisor) < 0
    IN IF numbers /\ NumSign(y) = 0 /\ NumSign(x) = 0
       THEN Atan2OfZeros(y_negative, NumSign(x_divisor) < 0)
       ELSE IF numbers /\ y_negative /\ NumSign(NumDiv(x, x_divisor)) < 0
       THEN Atan2OfZeros(TRUE, TRUE)
       ELSE Atan2(NumDiv(y, y_divisor), NumDiv(x, x_divisor))

\* lib.rs:750-759: phi1 for the theta of lib.rs:748
Phi1(theta, rotation_matrix) ==
    IF ~ThetaIsZero(theta) /\ ~ThetaIsPi(theta)
    THEN Atan2OfQuotients(rotation_matrix[3][1], NumNeg(Sin(theta)),
                          rotation_matrix[3][2], NumNeg(Sin(theta)))
    ELSE ZeroAngle

\* lib.rs:750-765: phi2 for the theta of lib.rs:748 and the phi1 above
Phi2(theta, phi1, rotation_matrix) ==
    IF ~ThetaIsZero(theta) /\ ~ThetaIsPi(theta)
    THEN Atan2OfQuotients(rotation_matrix[1][3], NumNeg(Sin(theta)),
                          rotation_matrix[2][3], Sin(theta))
    ELSE GimbalLockPhi2(theta, phi1, rotation_matrix)

\* lib.rs:750-778: the angles for the theta and the phi1 of the matrix, each
\* reduced into [0, 2 pi)
AnglesOfPhi1(theta, phi1, rotation_matrix) ==
    <<ReduceAngle(phi1), ReduceAngle(theta),
      ReduceAngle(Phi2(theta, phi1, rotation_matrix))>>

\* lib.rs:749-778: the angles for the theta of the matrix
AnglesOfTheta(theta, rotation_matrix) ==
    AnglesOfPhi1(theta, Phi1(theta, rotation_matrix), rotation_matrix)

\* lib.rs:740-779
EulerAnglesFromRotationMatrix(rotation_matrix) ==
    AnglesOfTheta(Acos(rotation_matrix[3][3]), rotation_matrix)

\* the points of the unit circle whose coordinates are among 0, 3/5, 4/5
\* and 1 in size
CirclePoints ==
    {<<Rat(q[1], 5), Rat(q[2], 5)>> :
       q \in {q \in (-5..5) \X (-5..5) : q[1] * q[1] + q[2] * q[2] = 25}}

\* the Euler angles of a grain: the angles of the circle points
AngleGrid == {Angle(Num(p[1], RatZero), Num(p[2], RatZero), 0) : p \in CirclePoints}

\* the vectors of whole numbers of length MatrixDenominator
NormVectors ==
    LET D == MatrixDenominator
    IN UNION {UNION {{<<x, y, z>> : z \in {w \in -D..D : x * x + y * y + w * w = D * D}} :
                        y \in -D..D} : x \in -D..D}

\* the rotation matrices with determinant +1 whose entries are whole numbers
\* over MatrixDenominator and whose polar angle has a rational sine: two
\* orthogonal rows of length 1 and their cross product as third row
RationalRotations ==
    LET D == MatrixDenominator
        Third(a, b) == <<(a[2] * b[3] - a[3] * b[2]) \div D,
                         (a[3] * b[1] - a[1] * b[3]) \div D,
                         (a[1] * b[2] - a[2] * b[1]) \div D>>
        Rows == {p \in NormVectors \X NormVectors :
                    /\ p[1][1] * p[2][1] + p[1][2] * p[2][2] + p[1][3] * p[2][3] = 0
                    /\ \E r \in 0..D : r * r = D * D - Third(p[1], p[2])[3] * Third(p[1], p[2])[3]}
        Row(v) == <<Rat(v[1], D), Rat(v[2], D), Rat(v[3], D)>>
    IN {<<Row(p[1]), Row(p[2]), Row(Third(p[1], p[2]))>> : p \in Rows}

\* the f64 matrix of the rotation R
ExactMatrix(R) == [i \in 1..3 |-> [j \in 1..3 |-> Num(R[i][j], RatZero)]]

\* the f64 matrix of the rotation R after a rotation by 1.05e-8 about the
\* axis (u, v, 0), for R with theta = 0 or theta = pi: R + 1.05e-8 * R K,
\* K the cross product with the axis; its entry [2, 2] stays 1.0 or -1.0
TiltedMatrix(R, axis) ==
    LET u == axis[1]
        v == axis[2]
        tilt(i) == <<RatNeg(RatMul(v, R[i][3])),
                     RatMul(u, R[i][3]),
                     RatSub(RatMul(v, R[i][1]), RatMul(u, R[i][2]))>>
    IN [i \in 1..3 |-> [j \in 1..3 |-> Num(R[i][j], tilt(i)[j])]]

\* the f64 matrix of the rotation by 1e-17 about the third axis, one way
\* (sign 1) or the other: the identity with 1e-17 and -1e-17 in the places
\* [0, 1] and [1, 0]
NearIdentityMatrix(sign) ==
    << <<NumOne, NumTiny(sign), NumZero>>,
       <<NumTiny(-sign), NumOne, NumZero>>,
       <<NumZero, NumZero, NumOne>> >>

\* the matrices handed to euler_angles_from_rotation_matrix
RotationMatrices ==
    {ExactMatrix(R) : R \in RationalRotations}
    \cup {NearIdentityMatrix(1), NearIdentityMatrix(-1)}
    \cup {TiltedMatrix(R, axis) :
            R \in {Q \in RationalRotations : Abs(Q[3][3].n) = Q[3][3].d},
            axis \in CirclePoints}

\* lib.rs:933-944: a matrix that is no rotation: the third row of a rotation
\* set to 0.0, as test part_2 does with the matrix of part_1
ZeroThirdRow(m) == [m EXCEPT ![3] = <<NumZero, NumZero, NumZero>>]

\* a matrix that is no rotation: the entry [2, 2] of a rotation set to 2.0,
\* which is the cosine of no angle
EntryOutOfRange(m) == [m EXCEPT ![3][3] = Exact(2, 1)]

\* a matrix that is no rotation: the entry [2, 2] of a rotation set to
\* 1.0 + 1.05e-8
EntryAboveOne(m) == [m EXCEPT ![3][3] = Num(RatOne, RatOne)]

\* the matrices that are no rotations handed to
\* euler_angles_from_rotation_matrix
InvalidMatrices ==
    {ZeroThirdRow(ExactMatrix(R)) : R \in RationalRotations}
    \cup {EntryOutOfRange(ExactMatrix(R)) : R \in RationalRotations}
    \cup {EntryAboveOne(ExactMatrix(R)) : R \in RationalRotations}

InitEuler ==
    /\ \/ \E rot1 \in RotationMatrices \cup InvalidMatrices :
             euler = [pc |-> "rot1", rot1 |-> rot1, ea1 |-> <<>>, rot2 |-> <<>>,
                      ea2 |-> <<>>, rot3 |-> <<>>]
       \/ \E phi1 \in AngleGrid, theta \in AngleGrid \cup {TinyAngle, NearPiAngle},
             phi2 \in AngleGrid :
             euler = [pc |-> "ea1", rot1 |-> <<>>, ea1 |-> <<phi1, theta, phi2>>,
                      rot2 |-> <<>>, ea2 |-> <<>>, rot3 |-> <<>>]
    /\ resolver = [pc |-> "idle"]
    /\ assembly = [pc |-> "idle"]
    /\ output = [pc |-> "idle"]
    /\ density = [pc |-> "idle"]
    /\ PipelineIdle

\* lib.rs:795: let ea1 = euler_angles_from_rotation_matrix(rot1.clone())
FromRotationMatrix ==
    /\ euler.pc = "rot1"
    /\ euler' = [euler EXCEPT !.pc = "ea1",
                              !.ea1 = EulerAnglesFromRotationMatrix(euler.rot1)]
    /\ UNCHANGED <<resolver, assembly, output, density>>
    /\ UNCHANGED pipelineVars

\* lib.rs:796 and lib.rs:434-435: euler_angles_to_rotation_matrix(ea1)
ToRotationMatrix ==
    /\ euler.pc = "ea1"
    /\ euler' = [euler EXCEPT !.pc = "rot2",
                              !.rot2 = EulerAnglesToRotationMatrix(euler.ea1)]
    /\ UNCHANGED <<resolver, assembly, output, density>>
    /\ UNCHANGED pipelineVars

\* lib.rs:863, 1024: let ea2 = euler_angles_from_rotation_matrix(rot2.clone())
FromRotationMatrixAgain ==
    /\ euler.pc = "rot2"
    /\ euler.rot1 # <<>>
    /\ euler' = [euler EXCEPT !.pc = "ea2",
                              !.ea2 = EulerAnglesFromRotationMatrix(euler.rot2)]
    /\ UNCHANGED <<resolver, assembly, output, density>>
    /\ UNCHANGED pipelineVars

\* lib.rs:864, 1025: let rot3 = euler_angles_to_rotation_matrix(ea2).unwrap()
ToRotationMatrixAgain ==
    /\ euler.pc = "ea2"
    /\ euler' = [euler EXCEPT !.pc = "rot3",
                              !.rot3 = EulerAnglesToRotationMatrix(euler.ea2)]
    /\ UNCHANGED <<resolver, assembly, output, density>>
    /\ UNCHANGED pipelineVars

NextEuler ==
    \/ FromRotationMatrix
    \/ ToRotationMatrix
    \/ FromRotationMatrixAgain
    \/ ToRotationMatrixAgain

SpecEuler == InitEuler /\ [][NextEuler]_vars

(***************************************************************************)
(* The output of the units on their own, lib.rs:189-196, 278-284, 351-368, *)
(* 641-655: every unit makes its output directory and then writes one      *)
(* figure file per particle id it found.  A path is kept as the strings it *)
(* is concatenated from.                                                   *)
(***************************************************************************)
\* the directory names a configuration lists, in any order and any number
\* of times
DirNames == {"a/", "b/"}

\* the particle ids a unit finds and renders, at timestep 0
RenderedIds == {<<1>>, <<1, 2>>}

\* lib.rs:196: let lpo_dir = base_dir.clone() + &experiment_dir
LpoDir(base_dir, experiment_dir) == <<base_dir, experiment_dir>>

\* lib.rs:278-281: the directory create_dir_all makes
OutputDir(lpo_dir, figure_output_dir) ==
    [dir |-> lpo_dir \o <<figure_output_dir>>, file |-> <<>>]

\* lib.rs:283-284, 351-367: the figure file of (time_step, particle_id):
\* lpo_dir, figure_output_dir, figure_output_prefix and a tail that is the
\* same for every unit but for the timestep and the particle id
OutputFile(lpo_dir, figure_output_dir, figure_output_prefix, time_step, particle_id) ==
    [dir |-> lpo_dir \o <<figure_output_dir>>,
     file |-> <<figure_output_prefix, time_step, particle_id, ".png">>]

\* the units: one per entry of experiment_dirs (lib.rs:192-193)
OutputUnits == 1..Len(output.experiment_dirs)

\* lib.rs:196 for unit e
UnitLpoDir(e) == LpoDir(output.base_dir, output.experiment_dirs[e])

InitOutput ==
    /\ \E experiment_dirs \in SeqsOf(DirNames, 1, MaxExp), particle_ids \in RenderedIds :
          output = [pc |-> "running", base_dir |-> "base/",
                    experiment_dirs |-> experiment_dirs,
                    figure_output_dir |-> "CPO_figures/",
                    figure_output_prefix |-> "weighted_LPO",
                    particle_ids |-> particle_ids,
                    done |-> [e \in 1..Len(experiment_dirs) |-> 0],
                    written |-> {}]
    /\ resolver = [pc |-> "idle"]
    /\ assembly = [pc |-> "idle"]
    /\ euler = [pc |-> "idle"]
    /\ density = [pc |-> "idle"]
    /\ PipelineIdle

\* lib.rs:278-281: unit e makes its output directory
MakeOutputDir(e) ==
    /\ output.pc = "running"
    /\ output.done[e] = 0
    /\ output' = [output EXCEPT
                     !.done[e] = 1,
                     !.written = @ \cup {[unit |-> e,
                                          path |-> OutputDir(UnitLpoDir(e),
                                                             output.figure_output_dir)]}]
    /\ UNCHANGED <<resolver, assembly, euler, density>>
    /\ UNCHANGED pipelineVars

\* lib.rs:351-367, 641-655: unit e writes the figure of its next particle id
WriteFigure(e) ==
    /\ output.pc = "running"
    /\ output.done[e] \in 1..Len(output.particle_ids)
    /\ output' = [output EXCEPT
                     !.done[e] = @ + 1,
                     !.written = @ \cup {[unit |-> e,
                                          path |-> OutputFile(UnitLpoDir(e),
                                                              output.figure_output_dir,
                                                              output.figure_output_prefix, 0,
                                                              output.particle_ids[output.done[e]])]}]
    /\ UNCHANGED <<resolver, assembly, euler, density>>
    /\ UNCHANGED pipelineVars

NextOutput ==
    \/ \E e \in OutputUnits : MakeOutputDir(e)
    \/ \E e \in OutputUnits : WriteFigure(e)

SpecOutput == InitOutput /\ [][NextOutput]_vars

(***************************************************************************)
(* The sampling grid, create_lambert_equal_area_gridpoint (lambert.rs:     *)
(* 45-127).  A planar coordinate is kept as the fraction it is of r_plane  *)
(* = sqrt(2), so that X * X is the fraction 2 u u; a coordinate on the     *)
(* sphere is the signed root of a fraction, sign * sqrt(square), or NaN.   *)
(* On the grids of the model 1 - (X X + Z Z) / 4 is 0 at the four corners  *)
(* and above 1/50 elsewhere.  At the corners f64 has -f64::EPSILON, since  *)
(* the square of r_plane is 2.0000000000000004: x, which is guarded by     *)
(* `> f64::EPSILON`, is 0 there, and z, which is not, is the root of       *)
(* f64::EPSILON times z_plane, 2.1e-8 in size.  Such a root carries the    *)
(* flag eps: it is sign * sqrt(square * f64::EPSILON).                     *)
(***************************************************************************)
RatSign(a) == IF a.n > 0 THEN 1 ELSE IF a.n < 0 THEN -1 ELSE 0

Root(sign, square) ==
    [nan |-> FALSE, eps |-> FALSE, sign |-> IF square.n = 0 THEN 0 ELSE sign,
     square |-> square]

NaNRoot == [nan |-> TRUE, eps |-> FALSE, sign |-> 0, square |-> RatZero]

\* the f64 value of a fraction
RootOfRat(a) == Root(RatSign(a), RatMul(a, a))

\* sqrt(radicand) * (plane * r_plane)
RootTimesPlane(radicand, plane) ==
    Root(RatSign(plane), RatMul(radicand, RatMul(Rat(2, 1), RatMul(plane, plane))))

\* sqrt(f64::EPSILON) * (plane * r_plane)
EpsilonRootTimesPlane(plane) ==
    [Root(RatSign(plane), RatMul(Rat(2, 1), RatMul(plane, plane))) EXCEPT !.eps = TRUE]

RootNeg(r) == [r EXCEPT !.sign = -r.sign]

\* r / sqrt(square): 0.0 / 0.0 is NaN
RootDiv(r, square) ==
    IF square.n = 0 THEN NaNRoot
    ELSE [Root(r.sign, RatDiv(r.square, square)) EXCEPT !.eps = r.eps]

\* ndarray's Array::linspace(-r_plane, r_plane, n), in units of r_plane:
\* the step is 2 / (n - 1), and 0 for n = 1
Linspace(n) ==
    [i \in 1..n |-> IF n = 1 THEN Rat(-1, 1) ELSE RatAdd(Rat(-1, 1), Rat(2 * (i - 1), n - 1))]

\* lambert.rs:130-159: new_x repeats x_plane in every row, new_y holds
\* y_plane[i] all along row i
CreateMeshgrid(x_plane, y_plane) ==
    [new_x |-> [i \in 1..Len(x_plane) |-> [j \in 1..Len(y_plane) |-> x_plane[j]]],
     new_y |-> [i \in 1..Len(x_plane) |-> [j \in 1..Len(y_plane) |-> y_plane[i]]]]

\* lambert.rs:56: z_plane.invert_axis(Axis(0)): the rows in reverse order
InvertAxis0(plane) == [i \in 1..Len(plane) |-> plane[Len(plane) + 1 - i]]

\* x_plane * x_plane + z_plane * z_plane
PlaneRadiusSquared(x_plane, z_plane) ==
    RatMul(Rat(2, 1), RatAdd(RatMul(x_plane, x_plane), RatMul(z_plane, z_plane)))

\* 1 - (x_plane * x_plane + z_plane * z_plane) / 4
QuarterTerm(x_plane, z_plane) ==
    RatSub(RatOne, RatDiv(PlaneRadiusSquared(x_plane, z_plane), Rat(4, 1)))

\* 1 - (x_plane * x_plane + z_plane * z_plane) / 2
HalfTerm(x_plane, z_plane) ==
    RatSub(RatOne, RatDiv(PlaneRadiusSquared(x_plane, z_plane), Rat(2, 1)))

\* lambert.rs:65-74
LambertX(x_plane, z_plane) ==
    IF RatLess(RatZero, QuarterTerm(x_plane, z_plane))
    THEN RootTimesPlane(RatAbs(QuarterTerm(x_plane, z_plane)), x_plane)
    ELSE Root(0, RatZero)

\* lambert.rs:76-103, a variant: y stays at the zeros it is made with, as
\* for a hemisphere that is neither "lower" nor "upper"
LambertYOfNeither(hemisphere, x_plane, z_plane) == Root(0, RatZero)

\* lambert.rs:76-82, 90-96
LambertY(hemisphere, x_plane, z_plane) ==
    IF hemisphere = "lower" THEN RootNeg(RootOfRat(HalfTerm(x_plane, z_plane)))
    ELSE IF hemisphere = "upper" THEN RootOfRat(HalfTerm(x_plane, z_plane))
    ELSE Root(0, RatZero)

\* lambert.rs:83-89, 97-103: sqrt(|1 - (x x + z z) / 4|) * z_plane, without
\* the guard x has: where the term is -f64::EPSILON, its root is taken
LambertZ(hemisphere, x_plane, z_plane) ==
    LET plane == IF hemisphere = "lower" THEN RatNeg(z_plane) ELSE z_plane
    IN IF hemisphere \notin {"lower", "upper"} THEN Root(0, RatZero)
       ELSE IF QuarterTerm(x_plane, z_plane).n = 0 THEN EpsilonRootTimesPlane(plane)
       ELSE RootTimesPlane(RatAbs(QuarterTerm(x_plane, z_plane)), plane)

\* lambert.rs:107-113: x * x + y * y + z * z, what mag is the root of; the
\* square of a root of f64::EPSILON, 4.4e-16, is of the size of the
\* rounding of the other two squares and is left out
MagSquared(x, y, z) ==
    RatAdd(RatAdd(x.square, y.square), IF z.eps THEN RatZero ELSE z.square)

\* lambert.rs:45-127
CreateLambertEqualAreaGridpoint(sphere_points, hemisphere) ==
    LET cells == 1..sphere_points
        line == Linspace(sphere_points)
        mesh == CreateMeshgrid(line, line)
        x_plane == mesh.new_x
        z_plane == InvertAxis0(mesh.new_y)
        x == [i \in cells |-> [j \in cells |-> LambertX(x_plane[i][j], z_plane[i][j])]]
        y == [i \in cells |-> [j \in cells |->
                 LambertY(hemisphere, x_plane[i][j], z_plane[i][j])]]
        z == [i \in cells |-> [j \in cells |->
                 LambertZ(hemisphere, x_plane[i][j], z_plane[i][j])]]
        mag == [i \in cells |-> [j \in cells |-> MagSquared(x[i][j], y[i][j], z[i][j])]]
    IN [x_plane |-> x_plane, z_plane |-> z_plane,
        x |-> [i \in cells |-> [j \in cells |-> RootDiv(x[i][j], mag[i][j])]],
        y |-> [i \in cells |-> [j \in cells |-> RootDiv(y[i][j], mag[i][j])]],
        z |-> [i \in cells |-> [j \in cells |-> RootDiv(z[i][j], mag[i][j])]]]

(***************************************************************************)
(* The validity mask of make_pole_figures (make_pole_figures.rs:37-50).    *)
(***************************************************************************)
\* (r_plane + 0.001) squared, 2.00282942..., cut after six places: no cell
\* of the grids of the model, and none of the grid of 301 points a side the
\* program uses, has a squared radius between the two
MaskRadiusSquared == Rat(2002829, 1000000)

\* make_pole_figures.rs:44-49, a variant: the radius is compared with r_plane
MaskCellAtRPlane(x_plane, z_plane) ==
    IF ~RatLess(PlaneRadiusSquared(x_plane, z_plane), Rat(2, 1)) THEN "NaN" ELSE "1"

\* make_pole_figures.rs:44-49: NaN when radius >= r_plane + 0.001, else 1.0
MaskCell(x_plane, z_plane) ==
    IF ~RatLess(PlaneRadiusSquared(x_plane, z_plane), MaskRadiusSquared) THEN "NaN" ELSE "1"

\* make_pole_figures.rs:37-50: a clone of x_plane, every cell overwritten
Mask(lambert) ==
    [i \in 1..Len(lambert.x_plane) |-> [j \in 1..Len(lambert.x_plane[i]) |->
        MaskCell(lambert.x_plane[i][j], lambert.z_plane[i][j])]]

(***************************************************************************)
(* The density estimator, gaussian_orientation_counts (lib.rs:702-734).    *)
(***************************************************************************)
\* lib.rs:710: k, the width of the spherical gaussian, as a fraction
GaussianK(npts) ==
    LET k == RatMul(Rat(2, 1), RatAdd(RatOne, Rat(npts, 9)))
    IN IF RatLess(Rat(100, 1), k) THEN Rat(100, 1) ELSE k

\* lib.rs:713: what std_dev is the square root of
StdDevSquared(npts) ==
    LET k == GaussianK(npts)
    IN RatDiv(RatMul(Rat(npts, 1), RatSub(RatDiv(k, Rat(2, 1)), RatOne)), RatMul(k, k))

\* The values the estimator computes are irrational; they are computed to
\* sixteen decimal places, and a count is given to six, as a whole number
\* of millionths.  A unit vector of the input is given in thousandths.
Thousand == 10 * 100
Million == Thousand * Thousand

\* the millionths of a value, cut after the sixth place
Millionths(a) == a[1] * Million + a[2] * 100 + a[3] \div 100

\* the sum of two values with signs
SignedAdd(a, b) ==
    IF a.sign = 0 THEN b
    ELSE IF b.sign = 0 THEN a
    ELSE IF a.sign = b.sign THEN Signed(a.sign, FixAdd(a.size, b.size))
    ELSE IF FixLess(a.size, b.size) THEN Signed(b.sign, FixSub(b.size, a.size))
    ELSE Signed(a.sign, FixSub(a.size, b.size))

\* the f64 value of a coordinate on the sphere; the root of f64::EPSILON
\* is 2^-26, and 8192 is 2^13
RootFix(r) ==
    LET root == FixSqrt(FixOfFraction(r.square.n, r.square.d))
    IN Signed(r.sign, IF r.eps THEN FixDivInt(FixDivInt(root, 8192), 8192) ELSE root)

\* lib.rs:724, a variant: exp(x) cut after the linear term, 1 + x
ExpLinear(x) == SignedAdd(Signed(1, FixOne), x)

\* e^-1, e^-2, e^-4, e^-8, e^-16 and e^-32, cut after sixteen places
ExpOfMinusPowers ==
    <<<<0, 3678, 7944, 1171, 4423>>, <<0, 1353, 3528, 3236, 6126>>,
      <<0, 183, 1563, 8888, 7341>>, <<0, 3, 3546, 2627, 9025>>,
      <<0, 0, 11, 2535, 1747>>, <<0, 0, 0, 0, 126>>>>

\* e^-n for a whole number n, the product of the powers for the binary
\* digits of n from digit `bit` on; below 10^-16 from n = 37 on
RECURSIVE ExpOfMinusWhole(_, _)
ExpOfMinusWhole(n, bit) ==
    IF n = 0 THEN FixOne
    ELSE IF bit > Len(ExpOfMinusPowers) THEN FixZero
    ELSE LET rest == ExpOfMinusWhole(n \div 2, bit + 1)
         IN IF n % 2 = 1 THEN FixMul(ExpOfMinusPowers[bit], rest) ELSE rest

\* e^-f for f of 0 .. 1: the series 1 - f + f f / 2 - ... up to the term
\* of degree 18, which is below 10^-16; term is f^j / j!
RECURSIVE ExpOfMinusFraction(_, _, _, _, _)
ExpOfMinusFraction(f, term, j, even, odd) ==
    IF j > 18 THEN FixSub(even, odd)
    ELSE ExpOfMinusFraction(f, FixDivInt(FixMul(term, f), j + 1), j + 1,
                            IF j % 2 = 0 THEN FixAdd(even, term) ELSE even,
                            IF j % 2 = 1 THEN FixAdd(odd, term) ELSE odd)

\* e^-a for a >= 0
ExpOfMinus(a) ==
    FixMul(ExpOfMinusWhole(a[1], 1),
           ExpOfMinusFraction(<<0, a[2], a[3], a[4], a[5]>>, FixOne, 0, FixZero, FixZero))

\* lib.rs:724: f64::exp
Exp(x) ==
    IF x.sign > 0 THEN Signed(1, FixInv(ExpOfMinus(x.size)))
    ELSE Signed(1, ExpOfMinus(x.size))

\* the input of the estimator: the rows of `particles`, a unit vector each
\* (in thousandths); a row that is repeated is kept once with its number
ParticleRow(vector, copies) == [vector |-> vector, copies |-> copies]

\* lib.rs:707: let npts = particles.shape()[0]
Npts(particles) ==
    LET F[i \in 0..Len(particles)] ==
            IF i = 0 THEN 0 ELSE F[i-1] + particles[i].copies
    IN F[Len(particles)]

\* lib.rs:521-531, a variant: cell (i, j) is put at j * sphere_points + i
SpherePointGridByColumns(lambert, sphere_points) ==
    [c \in 1..(sphere_points * sphere_points) |->
        LET j == ((c - 1) \div sphere_points) + 1
            i == ((c - 1) % sphere_points) + 1
        IN <<RootFix(lambert.x[i][j]), RootFix(lambert.y[i][j]), RootFix(lambert.z[i][j])>>]

\* lib.rs:521-531: sphere_point_grid, the grid points in one row: cell
\* (i, j), counted from 0, is at i * sphere_points + j
SpherePointGrid(lambert, sphere_points) ==
    [c \in 1..(sphere_points * sphere_points) |->
        LET i == ((c - 1) \div sphere_points) + 1
            j == ((c - 1) % sphere_points) + 1
        IN <<RootFix(lambert.x[i][j]), RootFix(lambert.y[i][j]), RootFix(lambert.z[i][j])>>]

\* lib.rs:716: one entry of particles.dot(sphere_point_grid), a thousand-fold
ParticlesDot(vector, point) ==
    LET term(i) == Signed((IF vector[i] < 0 THEN -1 ELSE 1) * point[i].sign,
                          FixScale(point[i].size, Abs(vector[i])))
    IN SignedAdd(SignedAdd(term(1), term(2)), term(3))

\* lib.rs:716-722, a variant: without par_mapv_inplace(f64::abs)
CosAlphaTermSigned(k, vector, point) ==
    LET dot == ParticlesDot(vector, point)
        cosalpha == Signed(dot.sign, FixDivInt(dot.size, Thousand))
        rest == SignedAdd(cosalpha, Signed(-1, FixOne))
    IN Signed(rest.sign, FixDivInt(FixScale(rest.size, k.n), k.d))

\* lib.rs:716-722: k * (|particle . grid point| - 1)
CosAlphaTerm(k, vector, point) ==
    LET dot == ParticlesDot(vector, point)
        cosalpha == Signed(1, FixDivInt(dot.size, Thousand))
        rest == SignedAdd(cosalpha, Signed(-1, FixOne))
    IN Signed(rest.sign, FixDivInt(FixScale(rest.size, k.n), k.d))

\* lib.rs:702-734; the counts are in millionths
GaussianOrientationCounts(particles, sphere_point_grid, sphere_points) ==
    LET npts == Npts(particles)
        k == GaussianK(npts)
        std_dev == FixSqrt(FixOfFraction(StdDevSquared(npts).n, StdDevSquared(npts).d))
        Sum[c \in 1..Len(sphere_point_grid), r \in 0..Len(particles)] ==
            IF r = 0 THEN Signed(0, FixZero)
            ELSE LET e == Exp(CosAlphaTerm(k, particles[r].vector, sphere_point_grid[c]))
                 IN SignedAdd(Sum[c, r-1],
                              Signed(e.sign, FixScale(e.size, particles[r].copies)))
    IN [i \in 1..sphere_points |-> [j \in 1..sphere_points |->
           LET sum == Sum[(i - 1) * sphere_points + j, Len(particles)]
           IN sum.sign * Millionths(FixDiv(sum.size, FixScale(std_dev, 3)))]]

(***************************************************************************)
(* The sampling grid and the density estimator on their own, in the order  *)
(* of lib.rs:517-655: the grid, the counts of one pole figure, the largest *)
(* count, and the mask the renderer lays over the figure, with a step at   *)
(* every hand-over of work to the pool.                                    *)
(***************************************************************************)
\* the inputs of the estimator: one grain, two grains, a grain along the
\* pole of the lower hemisphere, and a sample so large that k is cut at 100
ParticleArrays ==
    {<<ParticleRow(<<0, Thousand, 0>>, 1)>>,
     <<ParticleRow(<<0, -Thousand, 0>>, 1)>>,
     <<ParticleRow(<<Thousand, 0, 0>>, 1)>>,
     <<ParticleRow(<<600, 800, 0>>, 1), ParticleRow(<<0, 600, -800>>, 1)>>,
     <<ParticleRow(<<0, 0, Thousand>>, 2), ParticleRow(<<-600, 0, 800>>, 7)>>,
     <<ParticleRow(<<0, 600, 800>>, 450)>>}

InitDensity ==
    /\ \E sphere_points \in 1..MaxSpherePoints, hemisphere \in {"upper", "lower"},
          particles \in ParticleArrays :
          density = [pc |-> "start", sphere_points |-> sphere_points,
                     hemisphere |-> hemisphere, particles |-> particles,
                     lambert |-> <<>>, sphere_point_grid |-> <<>>, counts |-> <<>>,
                     max_count |-> 0, mask |-> <<>>, waits |-> 0]
    /\ resolver = [pc |-> "idle"]
    /\ assembly = [pc |-> "idle"]
    /\ euler = [pc |-> "idle"]
    /\ output = [pc |-> "idle"]
    /\ PipelineIdle

\* lambert.rs:68, 94 (80 for "lower"), 100 (86), 111:
\* create_lambert_equal_area_gridpoint hands x, then y, then z, then mag to
\* the pool and waits for each; x, y, z and mag are its locals, the caller
\* has no grid before it returns
AwaitLambert ==
    /\ density.pc = "start"
    /\ density.waits < LambertPoolWaits
    /\ density' = [density EXCEPT !.waits = @ + 1]
    /\ UNCHANGED <<resolver, assembly, euler, output>>
    /\ UNCHANGED pipelineVars

\* lib.rs:517-519, lambert.rs:114-127: the pool has done mag; x, y and z
\* are divided by it and create_lambert_equal_area_gridpoint returns
CreateLambert ==
    /\ density.pc = "start"
    /\ density.waits = LambertPoolWaits
    /\ density' = [density EXCEPT
                      !.pc = "grid",
                      !.waits = 0,
                      !.lambert = CreateLambertEqualAreaGridpoint(density.sphere_points,
                                                                  density.hemisphere)]
    /\ UNCHANGED <<resolver, assembly, euler, output>>
    /\ UNCHANGED pipelineVars

\* lib.rs:521-531: the grid points are put in one row
BuildSpherePointGrid ==
    /\ density.pc = "grid"
    /\ density' = [density EXCEPT
                      !.pc = "points",
                      !.sphere_point_grid = SpherePointGrid(density.lambert,
                                                            density.sphere_points)]
    /\ UNCHANGED <<resolver, assembly, euler, output>>
    /\ UNCHANGED pipelineVars

\* lib.rs:720, 724 under lib.rs:583-588: gaussian_orientation_counts hands
\* the absolute values, then the exponentials, to the pool and waits for
\* each; the caller has no counts before it returns
AwaitOrientationCounts ==
    /\ density.pc = "points"
    /\ density.waits < CountsPoolWaits
    /\ density' = [density EXCEPT !.waits = @ + 1]
    /\ UNCHANGED <<resolver, assembly, euler, output>>
    /\ UNCHANGED pipelineVars

\* lib.rs:583-588, lib.rs:725-734: the pool has done the exponentials;
\* gaussian_orientation_counts sums them and returns the counts
CountOrientations ==
    /\ density.pc = "points"
    /\ density.waits = CountsPoolWaits
    /\ density' = [density EXCEPT
                      !.pc = "counts",
                      !.waits = 0,
                      !.counts = GaussianOrientationCounts(density.particles,
                                                           density.sphere_point_grid,
                                                           density.sphere_points)]
    /\ UNCHANGED <<resolver, assembly, euler, output>>
    /\ UNCHANGED pipelineVars

\* lib.rs:590-606
FindMaxCount ==
    /\ density.pc = "counts"
    /\ density' = [density EXCEPT !.pc = "max",
                                  !.max_count = MaxCountValue(density.counts)]
    /\ UNCHANGED <<resolver, assembly, euler, output>>
    /\ UNCHANGED pipelineVars

\* make_pole_figures.rs:40-43: make_pole_figures, called at lib.rs:641-655,
\* hands the mask to the pool and waits
AwaitMask ==
    /\ density.pc = "max"
    /\ density.waits < MaskPoolWaits
    /\ density' = [density EXCEPT !.waits = @ + 1]
    /\ UNCHANGED <<resolver, assembly, euler, output>>
    /\ UNCHANGED pipelineVars

\* make_pole_figures.rs:37-50: the pool has done the mask
MaskFigure ==
    /\ density.pc = "max"
    /\ density.waits = MaskPoolWaits
    /\ density' = [density EXCEPT !.pc = "masked", !.waits = 0,
                                  !.mask = Mask(density.lambert)]
    /\ UNCHANGED <<resolver, assembly, euler, output>>
    /\ UNCHANGED pipelineVars

NextDensity ==
    \/ AwaitLambert
    \/ CreateLambert
    \/ BuildSpherePointGrid
    \/ AwaitOrientationCounts
    \/ CountOrientations
    \/ FindMaxCount
    \/ AwaitMask
    \/ MaskFigure

SpecDensity == InitDensity /\ [][NextDensity]_vars

(***************************************************************************)
(* What the claims about the shard scan speak of.                          *)
(***************************************************************************)
Ranks == 0..(MaxShard - 1)

\* the positions of the rows of the shard that deserialize and carry the id
RowsOfId(shard, id) ==
    {i \in 1..Len(shard.rows) : shard.rows[i].kind # "bad" /\ shard.rows[i].id = id}

\* the shard has a row that does not deserialize, or is a stream that does
\* not decode
Malformed(shard) ==
    \/ shard.kind = "corrupt"
    \/ \E i \in 1..Len(shard.rows) : shard.rows[i].kind = "bad"

\* the shard has a row of the id with an empty angle
IncompleteFor(shard, id) ==
    \E i \in 1..Len(shard.rows) :
       shard.rows[i].kind = "noangle" /\ shard.rows[i].id = id

\* the shard files of ranks 0 .. j-1 exist and hold no row of the id, and
\* the shard of rank j holds one
FirstMatchAt(tree, time_step, id, j) ==
    /\ \A i \in 0..(j - 1) :
          /\ GrainShard(tree, time_step, i).kind # "absent"
          /\ RowsOfId(GrainShard(tree, time_step, i), id) = {}
    /\ RowsOfId(GrainShard(tree, time_step, j), id) # {}

\* the sequence lists the members of the set in increasing order
ListsInOrder(seq, set) ==
    /\ {seq[i] : i \in 1..Len(seq)} = set
    /\ \A i \in 1..(Len(seq) - 1) : seq[i] < seq[i + 1]

\* the entries of a unit's log that settle a request
Settled(e) == {k \in 1..Len(log[e]) : log[e][k].kind \in {"notfound", "render"}}

\* the unit stands in the request (ti, pi): scanning, at the rendering, or
\* panicked in it
InRequest(e) == unit[e].pc \in {"scan", "found", "render", "panicked"} /\ unit[e].pi >= 1

\* C1: for every requested (time, particle id) pair, the second and later
\* particle ids of a time included, the shard scan begins at shard index 0.
C1_ScanBeginsAtShardZero ==
    \A e \in Experiments : unit[e].pc = "scan" => unit[e].start_rank = 0

\* C2: in a scan started at index 0, when the shards 0 .. j-1 exist and hold
\* no row of the requested id and shard j holds one, the scan never opens a
\* shard beyond j, never reports the particle as not found, and what it hands
\* on are exactly the rows of that id of shard j, in file order.
C2_FirstMatchingShard ==
    \A e \in Experiments : \A j \in Ranks :
       /\ (/\ InRequest(e)
           /\ unit[e].start_rank = 0
           /\ FirstMatchAt(fs[e], unit[e].time_step, config.particle_ids[unit[e].pi], j))
          => (unit[e].rank_id <= j /\ \A r \in unit[e].opened : r <= j)
       /\ \A k \in Settled(e) :
             (/\ log[e][k].start_rank = 0
              /\ FirstMatchAt(fs[e], log[e][k].time_step, log[e][k].particle_id, j))
             => /\ log[e][k].kind = "render"
                /\ log[e][k].rank_id = j
                /\ \A r \in log[e][k].opened : r <= j
                /\ ListsInOrder(log[e][k].rows,
                                RowsOfId(GrainShard(fs[e], log[e][k].time_step, j),
                                         log[e][k].particle_id))

\* C2, witness: the scan of the first particle id passed an empty shard 0 and
\* a shard 1 with rows of another id only, and rendered the rows of shard 2
C2_Witness ==
    \E e \in Experiments : \E k \in Settled(e) :
       /\ log[e][k].kind = "render" /\ log[e][k].start_rank = 0 /\ log[e][k].rank_id = 2
       /\ GrainShard(fs[e], log[e][k].time_step, 0).kind = "empty"
       /\ Len(GrainShard(fs[e], log[e][k].time_step, 1).rows) > 0
       /\ log[e][k].opened = {1, 2}

\* C3: when the shard file of the current scan index does not exist, the
\* scan of that particle stops with the particle reported as not found: the
\* renderer is not called for that (time, particle id), the unit does not
\* abort, and it goes on with the next requested particle id (after the last
\* one, with the next requested time).
C3_MissingShardIsNotFound ==
    [][\A e \in Experiments :
          (/\ Scanning(e)
           /\ CurrentShard(e).kind = "absent"
           /\ unit'[e] # unit[e])
          => /\ unit'[e].pc # "panicked"
             /\ Len(log'[e]) = Len(log[e]) + 1
             /\ Last(log'[e]).kind = "notfound"
             /\ Last(log'[e]).particle_id = CurrentParticle(e)
             /\ \A k \in 1..Len(log'[e]) :
                   log'[e][k].kind = "render"
                   => <<log'[e][k].ti, log'[e][k].pi>> # <<unit[e].ti, unit[e].pi>>
             /\ IF unit[e].pi < Len(config.particle_ids)
                THEN /\ unit'[e].pc = "scan"
                     /\ unit'[e].ti = unit[e].ti
                     /\ unit'[e].pi = unit[e].pi + 1
                ELSE unit'[e].pc \in {"time", "done"}]_vars

\* C3, witness: the first particle id was reported as not found and the unit
\* scans for the second one
C3_Witness ==
    \E e \in Experiments :
       /\ unit[e].pc = "scan" /\ unit[e].pi = 2
       /\ \E k \in Settled(e) :
             /\ log[e][k].kind = "notfound"
             /\ log[e][k].ti = unit[e].ti /\ log[e][k].pi = 1

\* C7: when one experiment directory fails, every other experiment directory
\* of the configuration is still processed: none is left unprocessed.
C7_OtherExperimentsProcessed ==
    (result # "running" /\ \E x \in Experiments : unit[x].pc = "panicked")
    => \A e \in Experiments : unit[e].pc \in {"done", "panicked"}

\* C8: a grain shard the scan of a request decodes that has a malformed row
\* (a row the reader cannot deserialize), matching the requested id or not,
\* or a row of the requested id with an empty angle, or that does not
\* decode, aborts the request: the unit panics in it, and no request whose
\* scan decoded such a shard is rendered or reported as not found.
C8_MalformedShardAborts ==
    \A e \in Experiments :
       /\ (/\ InRequest(e)
           /\ \E r \in unit[e].opened :
                 \/ Malformed(GrainShard(fs[e], unit[e].time_step, r))
                 \/ IncompleteFor(GrainShard(fs[e], unit[e].time_step, r),
                                  config.particle_ids[unit[e].pi]))
          => /\ unit[e].pc = "panicked"
             /\ \A k \in Settled(e) :
                   <<log[e][k].ti, log[e][k].pi>> # <<unit[e].ti, unit[e].pi>>
       /\ \A k \in Settled(e) : \A r \in log[e][k].opened :
             /\ ~Malformed(GrainShard(fs[e], log[e][k].time_step, r))
             /\ ~IncompleteFor(GrainShard(fs[e], log[e][k].time_step, r),
                               log[e][k].particle_id)

\* C8, witness: the unit panicked in a shard whose first row has the
\* requested id and whose second row is malformed
C8_Witness ==
    \E e \in Experiments :
       /\ unit[e].pc = "panicked" /\ unit[e].pi >= 1
       /\ \E r \in unit[e].opened :
             LET shard == GrainShard(fs[e], unit[e].time_step, r)
             IN /\ Len(shard.rows) = 2
                /\ shard.rows[1] = GoodRow(config.particle_ids[unit[e].pi])
                /\ shard.rows[2].kind = "bad"

\* C14: the density estimator is called with at least one input vector
\* whenever it is called (once per requested axis and mineral for each
\* particle that is rendered, with the n_grains rows found for it), so that
\* k = min(100, 2 (1 + n / 9)) is above 2 and at most 100 and std_dev is
\* above 0.
C14_EstimatorHasInput ==
    \A e \in Experiments : \A k \in 1..Len(log[e]) :
       log[e][k].kind = "render"
       => /\ log[e][k].n_grains >= 1
          /\ RatLess(Rat(2, 1), GaussianK(log[e][k].n_grains))
          /\ ~RatLess(Rat(100, 1), GaussianK(log[e][k].n_grains))
          /\ RatLess(RatZero, StdDevSquared(log[e][k].n_grains))

\* C14, witness: a particle was rendered from a shard with two rows of its
\* id, after a shard without a row of its id was passed
C14_Witness ==
    \E e \in Experiments : \E k \in 1..Len(log[e]) :
       /\ log[e][k].kind = "render"
       /\ log[e][k].n_grains = 2
       /\ log[e][k].rank_id >= 1
       /\ \E r \in log[e][k].opened :
             /\ r < log[e][k].rank_id
             /\ Len(GrainShard(fs[e], log[e][k].time_step, r).rows) = 0

\* the step leaves the unit where it is, one hand-off to the pool on, and
\* its log as it is
AwaitsPool(e) ==
    /\ unit'[e] = [unit[e] EXCEPT !.waits = @ + 1]
    /\ log'[e] = log[e]

\* the rows the particle-metadata shard of (time_step, rank) has for the id
MetadataRowsOfId(tree, time_step, rank, id) ==
    {row \in {ParticleRows(tree, time_step, rank)[i] :
                  i \in 1..Len(ParticleRows(tree, time_step, rank))} : row.id = id}

\* C15: when the scan finds the particle in grain shard j, the metadata
\* record handed on is a row the particle-metadata shard of the same
\* timestep and the same index j has for the requested id; when that file
\* has no row of the id, the record is the zeroed one (id 0, position 0) and
\* the unit goes on, to the rendering and the next request, without aborting.
C15_MetadataOfSameShard ==
    [][\A e \in Experiments :
          /\ (/\ Scanning(e)
              /\ Decoded(CurrentShard(e))
              /\ ~Malformed(CurrentShard(e))
              /\ ~IncompleteFor(CurrentShard(e), CurrentParticle(e))
              /\ RowsOfId(CurrentShard(e), CurrentParticle(e)) # {}
              /\ fs[e].particle \notin {"missing", "malformed"}
              /\ unit'[e] # unit[e])
             => /\ unit'[e].pc = "found"
                /\ unit'[e].rank_id = unit[e].rank_id
                /\ unit'[e].time_step = unit[e].time_step
          /\ (unit[e].pc = "found" /\ unit'[e] # unit[e] /\ ~AwaitsPool(e))
             => LET found == MetadataRowsOfId(fs[e], unit[e].time_step, unit[e].rank_id,
                                              CurrentParticle(e))
                IN /\ Len(log'[e]) = Len(log[e]) + 1
                   /\ Last(log'[e]).kind = "render"
                   /\ Last(log'[e]).rank_id = unit[e].rank_id
                   /\ Last(log'[e]).time_step = unit[e].time_step
                   /\ unit'[e] = [unit[e] EXCEPT !.pc = "render"]
                   /\ IF found = {}
                      THEN /\ Last(log'[e]).particle_record.id = 0
                           /\ Last(log'[e]).particle_record.x = 0
                      ELSE Last(log'[e]).particle_record \in found
          /\ (unit[e].pc = "render" /\ unit'[e] # unit[e])
             => /\ log'[e] = log[e]
                /\ MetadataRowsOfId(fs[e], unit[e].time_step, unit[e].rank_id,
                                    CurrentParticle(e)) = {}
                   => unit'[e].pc # "panicked"]_vars

\* the shard files of the unit's timestep that exist at the scan index or
\* after it: the files the scan has not passed yet
ShardsAhead(u, tree) ==
    {r \in Ranks : r >= u.rank_id /\ GrainShard(tree, u.time_step, r).kind # "absent"}

\* the step leaves the unit in the scan of the same request, one index on,
\* with one file less ahead of it
ScanAdvances(e) ==
    /\ unit'[e].pc = "scan"
    /\ unit'[e].ti = unit[e].ti /\ unit'[e].pi = unit[e].pi
    /\ log'[e] = log[e]
    /\ CurrentShard(e).kind # "absent"
    /\ unit'[e].rank_id = unit[e].rank_id + 1
    /\ Cardinality(ShardsAhead(unit'[e], fs[e])) < Cardinality(ShardsAhead(unit[e], fs[e]))

\* the step ends the scan of the request as Found: the unit holds the rows
\* of the shard at the scan index and turns to the rendering
ScanEndsFound(e) ==
    /\ unit'[e].pc = "found"
    /\ unit'[e].ti = unit[e].ti /\ unit'[e].pi = unit[e].pi
    /\ unit'[e].rank_id = unit[e].rank_id
    /\ unit'[e].rows # <<>>
    /\ log'[e] = log[e]
    /\ CurrentShard(e).kind # "absent"

\* the step ends the scan of the request as Exhausted: the particle is
\* reported as not found at the first index from the start of the scan
\* whose file is absent
ScanEndsExhausted(e) ==
    /\ unit'[e].pc \in {"scan", "time", "done"}
    /\ Len(log'[e]) = Len(log[e]) + 1
    /\ Last(log'[e]).kind = "notfound"
    /\ Last(log'[e]).rank_id = unit[e].rank_id
    /\ CurrentShard(e).kind = "absent"
    /\ \A r \in unit[e].start_rank..(unit[e].rank_id - 1) :
          GrainShard(fs[e], unit[e].time_step, r).kind # "absent"

\* the step aborts the unit in the request
ScanAborts(e) ==
    /\ unit'[e].pc = "panicked"
    /\ log'[e] = log[e]
    /\ CurrentShard(e).kind # "absent"

\* C18, as amended: for any finite set of shard files every iteration of
\* the scan of one request either stops the scan or advances the shard index
\* by exactly one past a file that exists, so that the scan ends after at
\* most as many iterations as there are files, plus one; it ends as Found,
\* as Exhausted (at the first index whose file is absent), or by aborting
\* the unit on a shard or a particle-metadata file that cannot be read.
C18_ScanStopsOrAdvances ==
    [][\A e \in Experiments :
          (Scanning(e) /\ unit'[e] # unit[e])
          => \/ ScanAdvances(e)
             \/ ScanEndsFound(e)
             \/ ScanEndsExhausted(e)
             \/ ScanAborts(e)]_vars

\* C18, as stated: for any finite set of shard files the scan of one request
\* ends as Found or as Exhausted: every iteration either stops the scan in
\* one of the two or advances the shard index by exactly one, and the scan
\* stops at the first index whose file is absent.
C18_ScanFoundOrExhausted ==
    [][\A e \in Experiments :
          (Scanning(e) /\ unit'[e] # unit[e])
          => \/ ScanAdvances(e)
             \/ ScanEndsFound(e)
             \/ ScanEndsExhausted(e)]_vars

\* C18, witness: the scan passed shard 0 and ended as Exhausted at index 1,
\* whose file is absent, although shard 2 exists and holds the particle
C18_Witness ==
    \E e \in Experiments : \E k \in 1..Len(log[e]) :
       /\ log[e][k].kind = "notfound"
       /\ log[e][k].start_rank = 0 /\ log[e][k].rank_id = 1
       /\ GrainShard(fs[e], log[e][k].time_step, 0).kind # "absent"
       /\ GrainShard(fs[e], log[e][k].time_step, 1).kind = "absent"
       /\ RowsOfId(GrainShard(fs[e], log[e][k].time_step, 2), log[e][k].particle_id) # {}

\* the shards of the timestep after rank j that hold rows of the id
LaterShardsOfId(tree, time_step, id, j) ==
    {r \in Ranks : r > j /\ RowsOfId(GrainShard(tree, time_step, r), id) # {}}

\* C21: when the rows of a particle id are spread over several shards of
\* the timestep, the scan of a request for the id returns only the rows of
\* the lowest-index matching shard: the shard j it finds rows of the id in
\* is the lowest of all shards of the timestep with rows of the id (no shard
\* of the ranks 0 .. j-1 holds any), the step hands on the rows of the id of
\* that shard only and ends the scan without an abort of the unit or of the
\* run, no shard after it is opened in the request, also when shards after
\* it hold rows of the same id, and the call of make_pole_figures that
\* follows is made with these rows.
C21_OnlyRowsOfLowestMatch ==
    [][\A e \in Experiments :
          /\ (/\ Scanning(e)
              /\ unit'[e] # unit[e]
              /\ RowsOfId(CurrentShard(e), CurrentParticle(e)) # {}
              /\ ~Malformed(CurrentShard(e))
              /\ ~IncompleteFor(CurrentShard(e), CurrentParticle(e))
              /\ fs[e].particle \notin {"missing", "malformed"})
             => LET j == unit[e].rank_id
                IN /\ ScanEndsFound(e)
                   /\ result' = result
                   /\ ListsInOrder(unit'[e].rows,
                                   RowsOfId(CurrentShard(e), CurrentParticle(e)))
                   /\ \A r \in 0..(j - 1) :
                         RowsOfId(GrainShard(fs[e], unit[e].time_step, r),
                                  CurrentParticle(e)) = {}
                   /\ \A r \in unit'[e].opened : r <= j
                   /\ LaterShardsOfId(fs[e], unit[e].time_step, CurrentParticle(e), j)
                         \cap unit'[e].opened = {}
          /\ (unit[e].pc = "found" /\ unit'[e] # unit[e] /\ ~AwaitsPool(e))
             => LET entry == Last(log'[e])
                IN /\ Len(log'[e]) = Len(log[e]) + 1
                   /\ entry.kind = "render"
                   /\ entry.particle_id = CurrentParticle(e)
                   /\ entry.rank_id = unit[e].rank_id
                   /\ entry.rows = unit[e].rows
                   /\ entry.n_grains = Len(unit[e].rows)
                   /\ entry.opened = unit[e].opened]_vars

\* the calls of make_pole_figures in the log of a unit
Rendered(e) == {k \in 1..Len(log[e]) : log[e][k].kind = "render"}

\* every cell of the grid is the figure of its axis and mineral, with the
\* count matrix of the axis vectors of the n_grains rows on the sampling
\* grid of the run, and carries the largest of the largest counts of the
\* figures of its mineral
GridIsComplete(grid, n_grains) ==
    /\ Len(grid) = Len(config.axes)
    /\ \A a \in 1..Len(grid) : Len(grid[a]) = Len(config.minerals)
    /\ \A a \in 1..Len(grid) : \A m \in 1..Len(grid[a]) :
          /\ grid[a][m].crystal_axis = config.axes[a]
          /\ grid[a][m].mineral = config.minerals[m]
          /\ grid[a][m].counts.list = SelectAxisVectors(config.axes[a], config.minerals[m])
          /\ grid[a][m].counts.npts = n_grains
          /\ grid[a][m].counts.shape = <<SpherePointsOfRun, SpherePointsOfRun>>
          /\ grid[a][m].max_count = {<<b, m>> : b \in 1..Len(grid)}

\* C26: make_pole_figures is called at most once for a request (a requested
\* time and a requested particle id of it), never for a request that was
\* settled as not found, only with rows the scan found for the id in the
\* shard it stopped at, and only with a grid in which every cell of axis
\* and mineral is computed and carries the maximum shared by the figures of
\* its mineral.  Stated of every step: the log of a unit only grows, and an
\* entry a step adds settles a request no other entry settles and, when it
\* is a call, is a call of that kind, made by a unit whose scan has ended
\* as Found.
C26_RenderedOnceWhenFoundAndComplete ==
    [][\A e \in Experiments :
          /\ Len(log'[e]) >= Len(log[e])
          /\ SubSeq(log'[e], 1, Len(log[e])) = log[e]
          /\ \A k \in (Len(log[e]) + 1)..Len(log'[e]) :
                /\ log'[e][k].kind \in {"notfound", "render"}
                   => \A l \in 1..Len(log'[e]) :
                         (/\ log'[e][l].kind \in {"notfound", "render"}
                          /\ log'[e][l].ti = log'[e][k].ti
                          /\ log'[e][l].pi = log'[e][k].pi) => l = k
                /\ log'[e][k].kind = "render"
                   => /\ unit[e].pc = "found"
                      /\ unit[e].waits = PoolWaitsOfParticle
                      /\ log'[e][k].pi >= 1
                      /\ log'[e][k].particle_id = config.particle_ids[log'[e][k].pi]
                      /\ log'[e][k].rank_id \in log'[e][k].opened
                      /\ log'[e][k].n_grains >= 1
                      /\ ListsInOrder(log'[e][k].rows,
                                      RowsOfId(GrainShard(fs[e], log'[e][k].time_step,
                                                          log'[e][k].rank_id),
                                               log'[e][k].particle_id))
                      /\ GridIsComplete(log'[e][k].pole_figure_grid,
                                        log'[e][k].n_grains)]_vars

\* C26, witness: a unit rendered two requests, one call each, and in the
\* grid of a call the figure of the first axis carries the maximum it
\* shares with the figure of the second axis
C26_Witness ==
    \E e \in Experiments : \E k, l \in Rendered(e) :
       /\ k # l
       /\ <<2, 1>> \in log[e][k].pole_figure_grid[1][1].max_count
       /\ log[e][k].pole_figure_grid[1][1].counts.npts = log[e][k].n_grains
       /\ \E n \in Settled(e) : log[e][n].kind = "notfound"

\* the sampling grids built in the run: one for each log entry that holds one
GridsBuilt ==
    UNION {{<<e, k>> : k \in {n \in 1..Len(log[e]) : log[e][n].lambert # <<>>}} :
             e \in Experiments}

\* C27: in one run the sampling grid is built at most once, whatever the
\* number of experiments, requested times and particle ids, and every call
\* of make_pole_figures is handed that one grid.
C27_GridBuiltOncePerRun ==
    /\ Cardinality(GridsBuilt) <= 1
    /\ \A e \in Experiments : \A k \in Rendered(e) :
          log[e][k].lambert = LambertOfIteration

\* the unit has read its statistics file and found no time in it
ReadEmptyTable(e) ==
    /\ config.pole_figures /\ fs[e].stat_present
    /\ ~TimeTablePanics(fs[e].stat)
    /\ unit[e].pc \notin {"pending", "skipped"}
    /\ unit[e].timestep_to_time = <<>>

\* C28: a unit whose time table is empty, with at least one requested time,
\* gets no further than the first requested time: it makes no output
\* directory, scans no shard and renders nothing with a timestep put in
\* place of the missing one; it aborts there, and the run does not end well.
C28_EmptyTableAborts ==
    \A e \in Experiments :
       (ReadEmptyTable(e) /\ Len(config.times) >= 1)
       => /\ unit[e].pc \in {"time", "panicked"}
          /\ unit[e].ti = 1
          /\ log[e] = <<>>
          /\ result # "ok"
          /\ result = "panic" => unit[e].pc = "panicked"

\* C28, witness: the run has ended with the panic of a unit whose
\* statistics file has no line of times, next to a unit that rendered
C28_Witness ==
    /\ result = "panic"
    /\ \E e \in Experiments :
          /\ ReadEmptyTable(e)
          /\ unit[e].pc = "panicked" /\ unit[e].ti = 1
          /\ Len(fs[e].stat) >= 1
    /\ \E e \in Experiments : Rendered(e) # {}

\* C29: with a configuration that has no pole_figures section no unit does
\* any pole-figure work (no directory made, no shard scanned, no figure
\* rendered), no unit aborts, and the run does not end in a panic: it
\* returns Ok.
C29_NoPoleFiguresReturnsOk ==
    ~config.pole_figures
    => /\ \A e \in Experiments :
             /\ log[e] = <<>>
             /\ unit[e].pc \notin {"panicked", "skipped", "scan"}
       /\ result # "panic"

\* C17: two units of one run never write the same file or directory: what
\* a unit creates lies under its own experiment directory, base_dir +
\* experiment_dir, and no path is written by two units.
C17_UnitsWriteOwnTree ==
    \A w \in output.written :
       /\ SubSeq(w.path.dir, 1, 2) = <<output.base_dir, output.experiment_dirs[w.unit]>>
       /\ \A v \in output.written : v.path = w.path => v.unit = w.unit

(***************************************************************************)
(* What the claims about the Time Resolver speak of.                       *)
(***************************************************************************)
\* the table is sorted ascending
SortedAscending(times) ==
    \A i \in 1..Len(times) : \A j \in i..Len(times) : times[i] <= times[j]

\* a is the "after" index of the request: the first timestep whose time
\* strictly exceeds the requested time
IsAfterIndex(times, output_time, a) ==
    /\ a \in 0..(Len(times) - 1)
    /\ times[a + 1] > output_time
    /\ \A j \in 0..(a - 1) : times[j + 1] <= output_time

\* the request is exactly halfway between the times at a - 1 and at a
Equidistant(times, output_time, a) ==
    /\ a >= 1
    /\ Abs(output_time - times[a]) = Abs(output_time - times[a + 1])

\* C4: for a non-empty time table sorted ascending and any requested time,
\* the resolved timestep is an index of the table, and no index of the table
\* has a time closer to the requested time.
C4_ClosestTimestep ==
    (/\ resolver.pc \in {"resolved", "panicked"}
     /\ Len(resolver.timestep_to_time) > 0
     /\ SortedAscending(resolver.timestep_to_time))
    => /\ resolver.pc = "resolved"
       /\ resolver.time_step \in 0..(Len(resolver.timestep_to_time) - 1)
       /\ \A i \in 1..Len(resolver.timestep_to_time) :
              Abs(resolver.timestep_to_time[resolver.time_step + 1] - resolver.output_time)
                  <= Abs(resolver.timestep_to_time[i] - resolver.output_time)

\* the example of the time resolution: 1.6 over 0.0, 1.0, 2.0, 5.0 is
\* resolved to timestep 2
C4_Witness ==
    /\ resolver.pc = "resolved"
    /\ resolver.timestep_to_time = <<0, 10, 20, 50>>
    /\ resolver.output_time = 16
    /\ resolver.time_step = 2

\* C5, as amended: when the requested time is exactly equidistant from the
\* time at the "before" index (after - 1) and the time at the "after" index,
\* the Time Resolver returns the "after" index.
C5_TieReturnsAfter ==
    resolver.pc = "resolved"
    => \A a \in 0..(Len(resolver.timestep_to_time) - 1) :
          (/\ IsAfterIndex(resolver.timestep_to_time, resolver.output_time, a)
           /\ Equidistant(resolver.timestep_to_time, resolver.output_time, a))
          => resolver.time_step = a

\* C5, as stated: when the requested time is exactly equidistant from the
\* time at the "before" index and the time at the "after" index, the Time
\* Resolver returns the "before" index.
C5_TieReturnsBefore ==
    resolver.pc = "resolved"
    => \A a \in 0..(Len(resolver.timestep_to_time) - 1) :
          (/\ IsAfterIndex(resolver.timestep_to_time, resolver.output_time, a)
           /\ Equidistant(resolver.timestep_to_time, resolver.output_time, a))
          => resolver.time_step = a - 1

\* 1.5 over 0.0, 1.0, 2.0, 5.0 is as far from timestep 1 as from timestep 2
\* and is resolved to timestep 2
C5_Witness ==
    /\ resolver.pc = "resolved"
    /\ resolver.timestep_to_time = <<0, 10, 20, 50>>
    /\ resolver.output_time = 15
    /\ IsAfterIndex(resolver.timestep_to_time, resolver.output_time, 2)
    /\ Equidistant(resolver.timestep_to_time, resolver.output_time, 2)
    /\ resolver.time_step = 2

\* the positions of the lines of the file that are no comment and carry the
\* marker
MarkedRows(lines) == {i \in 1..Len(lines) : ~lines[i].comment /\ lines[i].marker}

\* C16: the time table read from the statistics file holds, in the order of
\* the file's rows, exactly one time for each row that is no comment and
\* carries the marker, the number in the row's field 1, and nothing for a
\* comment row or a row without the marker: entry i of the table is the time
\* of the i-th such row.
C16_TimeTableOfMarkedRows ==
    (resolver.pc \in {"request", "resolved", "panicked"} /\ resolver.lines # <<>>)
    => /\ Len(resolver.timestep_to_time) = Cardinality(MarkedRows(resolver.lines))
       /\ \A r \in MarkedRows(resolver.lines) :
              resolver.timestep_to_time[Cardinality({q \in MarkedRows(resolver.lines) : q <= r})]
                  = resolver.lines[r].time

\* the table of a file with a marked row of time 10, a comment row that
\* carries the marker and a marked row of time 0
C16_Witness ==
    /\ resolver.pc = "request"
    /\ resolver.lines = <<StatLine(FALSE, TRUE, 10), StatLine(TRUE, TRUE, 10),
                          StatLine(FALSE, TRUE, 0)>>
    /\ resolver.timestep_to_time = <<10, 0>>

(***************************************************************************)
(* What the claims about the pole-figure assembly speak of.                *)
(***************************************************************************)
\* v is the largest of the max_counts the figures of mineral m have in grid
IsColumnMax(grid, m, v) ==
    /\ \E a \in 1..Len(grid) : grid[a][m].max_count = v
    /\ \A a \in 1..Len(grid) : grid[a][m].max_count <= v

\* C6: the step that shares the colour scale leaves in every figure of the
\* grid, for every requested axis a and every requested mineral m, the
\* largest max_count the figures of mineral m had before the step over all
\* requested axes; the figures of the other minerals have no part in it.
C6_SharedMaxPerMineral ==
    [][(assembly.pc = "filled" /\ assembly'.pc # "filled")
       => /\ assembly'.pc = "shared"
          /\ \A a \in 1..Len(assembly.axes) : \A m \in 1..Len(assembly.minerals) :
                 /\ IsColumnMax(assembly.pole_figure_grid, m,
                                assembly'.pole_figure_grid[a][m].max_count)
                 /\ assembly'.pole_figure_grid[a][m].counts
                        = assembly.pole_figure_grid[a][m].counts]_vars

\* two axes of one mineral whose largest counts were 3 and 7 both carry 7,
\* and the figures of the other mineral carry their own, smaller maximum
C6_Witness ==
    /\ assembly.pc = "shared"
    /\ Len(assembly.axes) = 2 /\ Len(assembly.minerals) = 2
    /\ MaxCountValue(assembly.pole_figure_grid[1][1].counts) = 3
    /\ MaxCountValue(assembly.pole_figure_grid[2][1].counts) = 7
    /\ assembly.pole_figure_grid[1][1].max_count = 7
    /\ assembly.pole_figure_grid[2][1].max_count = 7
    /\ assembly.pole_figure_grid[1][2].max_count = 3
    /\ assembly.pole_figure_grid[2][2].max_count = 3

\* C25: once the grid is filled it has one row for each requested axis and
\* in each row one cell for each requested mineral; the cell [a][m] carries
\* the axis a and the mineral m of the request and the counts of the list
\* of vectors of that axis of that mineral, and no cell is the figure the
\* grid was made of at first.
C25_GridOfAxesByMinerals ==
    assembly.pc \in {"filled", "shared"}
    => LET grid == assembly.pole_figure_grid
       IN /\ Len(grid) = Len(assembly.axes)
          /\ \A a \in 1..Len(grid) :
                /\ Len(grid[a]) = Len(assembly.minerals)
                /\ \A m \in 1..Len(grid[a]) :
                      /\ grid[a][m].crystal_axis = assembly.axes[a]
                      /\ grid[a][m].mineral = assembly.minerals[m]
                      /\ grid[a][m].counts
                             = assembly.counts[<<assembly.minerals[m], assembly.axes[a]>>]
                      /\ grid[a][m].counts # <<>>
                      /\ grid[a][m] # PoleFigure("AAxis", "Olivine", <<>>, 0)

\* C25, witness: a filled grid of two axes and two minerals whose four
\* lists have four different count matrices, the first list among them
C25_Witness ==
    /\ assembly.pc = "filled"
    /\ assembly.axes = <<"AAxis", "BAxis">>
    /\ assembly.minerals = <<"Olivine", "Enstatite">>
    /\ Cardinality({assembly.pole_figure_grid[a][m].counts : a \in 1..2, m \in 1..2}) = 4
    /\ assembly.pole_figure_grid[1][1].counts # BackgroundCounts

\* v is the largest entry of the count matrix
IsLargestEntry(counts, v) ==
    /\ \E i \in 1..Len(counts) : \E j \in 1..Len(counts[i]) : counts[i][j] = v
    /\ \A i \in 1..Len(counts) : \A j \in 1..Len(counts[i]) : counts[i][j] <= v

\* C19: the max_count a pole figure holds before the colour scale is shared
\* is the largest of all N x N entries of its count matrix.
C19_MaxCountOverAllEntries ==
    assembly.pc = "filled"
    => \A a \in 1..Len(assembly.axes) : \A m \in 1..Len(assembly.minerals) :
          IsLargestEntry(assembly.pole_figure_grid[a][m].counts,
                         assembly.pole_figure_grid[a][m].max_count)

(***************************************************************************)
(* What the claims about the Euler-angle conversions speak of.             *)
(***************************************************************************)
DotProduct(u, v) ==
    NumAdd(NumAdd(NumMul(u[1], v[1]), NumMul(u[2], v[2])), NumMul(u[3], v[3]))

Determinant(m) ==
    NumAdd(NumSub(NumMul(m[1][1], NumSub(NumMul(m[2][2], m[3][3]), NumMul(m[2][3], m[3][2]))),
                  NumMul(m[1][2], NumSub(NumMul(m[2][1], m[3][3]), NumMul(m[2][3], m[3][1])))),
           NumMul(m[1][3], NumSub(NumMul(m[2][1], m[3][2]), NumMul(m[2][2], m[3][1]))))

\* the matrix has orthogonal rows of length 1 and the determinant +1, as
\* far as f64 resolves it
IsRotation(m) ==
    /\ \A i \in 1..3 : \A j \in 1..3 :
          DotProduct(m[i], m[j]) = IF i = j THEN NumOne ELSE NumZero
    /\ Determinant(m) = NumOne

\* the size of the angle TinyAngle stands for and the tolerance of the round
\* trip, both in units of 1e-8
TinyAngleSize == Rat(105, 100)
Tolerance == Rat(1, 1)

\* |a - b| < 1e-8
Within(a, b) ==
    /\ ~IsNaN(a) /\ ~IsNaN(b)
    /\ a.r = b.r
    /\ RatLess(RatMul(RatAbs(RatSub(a.e, b.e)), TinyAngleSize), Tolerance)

\* C9: for a rotation matrix M with determinant +1, the matrix made from the
\* Euler angles taken from M equals M entry by entry within 1e-8, also when
\* theta is 0 or pi.
C9_RoundTrip ==
    (euler.pc = "rot2" /\ euler.rot1 # <<>> /\ IsRotation(euler.rot1))
    => \A i \in 1..3 : \A j \in 1..3 : Within(euler.rot2[i][j], euler.rot1[i][j])

\* C10: for every triple of Euler angles the rows of the matrix made from
\* it, which are the a-, b- and c-axis vector of the grain, have length 1
\* and are orthogonal to each other, and the determinant of the matrix is
\* +1, as far as f64 resolves it.
C10_RowsOrthonormal ==
    (euler.pc = "rot2" /\ \A k \in 1..3 : ~IsNaN(Cos(euler.ea1[k])))
    => LET axis_vectors == <<AAxisVector(euler.rot2), BAxisVector(euler.rot2),
                             CAxisVector(euler.rot2)>>
       IN /\ \A i \in 1..3 : \A j \in 1..3 :
                DotProduct(axis_vectors[i], axis_vectors[j])
                    = IF i = j THEN NumOne ELSE NumZero
          /\ Determinant(euler.rot2) = NumOne

\* the matrix of three angles none of which is a multiple of a quarter turn
C10_Witness ==
    /\ euler.pc = "rot2"
    /\ euler.rot1 = <<>>
    /\ \A k \in 1..3 : euler.ea1[k].cos.r.n # 0 /\ euler.ea1[k].sin.r.n # 0
    /\ \A i \in 1..3 : \A j \in 1..3 : euler.rot2[i][j].r.n # 0
    /\ Determinant(euler.rot2) = NumOne

\* the angle is a point of the unit circle with no whole turn on top of it:
\* a value in [0, 2 pi)
InFirstTurn(a) ==
    /\ a.turns = 0
    /\ NumAdd(NumMul(a.cos, a.cos), NumMul(a.sin, a.sin)) = NumOne
    /\ ~IsFullTurn(a)

\* the point of the angle lies on the ray from the origin through (x, y)
PointsAlong(a, x, y) ==
    /\ NumSub(NumMul(a.cos, y), NumMul(a.sin, x)) = NumZero
    /\ NumSign(NumAdd(NumMul(a.cos, x), NumMul(a.sin, y))) > 0

\* C22: euler_angles_from_rotation_matrix hands back three angles for every
\* matrix whose entry [2, 2] is a cosine, a value in [-1, 1], as it is in
\* every rotation matrix, each of them in [0, 2 pi); for a matrix whose entry
\* [2, 2] is 1.0 or -1.0 (theta is 0 or pi) phi1 is 0, theta is 0 or pi, and
\* phi2 is the angle of the entries [0, 0] and [0, 1] of the matrix: the
\* angle of the point ([0, 0], -[0, 1]) for theta = 0 and of the point
\* ([0, 0], [0, 1]) for theta = pi.
C22_AnglesInFirstTurn ==
    (/\ euler.pc \in {"ea1", "rot2"}
     /\ euler.rot1 # <<>>
     /\ InCosineRange(euler.rot1[3][3]))
    => LET m == euler.rot1
           ea == euler.ea1
       IN /\ Len(ea) = 3
          /\ \A k \in 1..3 : InFirstTurn(ea[k])
          /\ Cos(ea[2]) = m[3][3] /\ NumSign(Sin(ea[2])) >= 0
          /\ m[3][3] = NumOne
                => ea[1] = ZeroAngle /\ ea[2] = ZeroAngle
                   /\ PointsAlong(ea[3], m[1][1], NumNeg(m[1][2]))
          /\ m[3][3] = NumNeg(NumOne)
                => ea[1] = ZeroAngle /\ ea[2] = Angle(NumNeg(NumOne), NumZero, 0)
                   /\ PointsAlong(ea[3], m[1][1], m[1][2])

\* C23, as stated: the matrix made from the Euler angles of a matrix is reproduced
\* within 1e-8, entry by entry, when the two conversions are applied to it
\* once more (rot3 against rot2), whatever the first matrix was, a matrix
\* that is no rotation included.
C23_SecondRoundTripReproduces ==
    euler.pc = "rot3"
    => \A i \in 1..3 : \A j \in 1..3 : Within(euler.rot3[i][j], euler.rot2[i][j])

\* C23, as amended: when the entry [2, 2] of the first matrix lies in
\* [-1, 1], the matrix made from its Euler angles is reproduced within 1e-8
\* by the second round trip, also when the first matrix is no rotation.
C23_InRangeReproduces ==
    (euler.pc = "rot3" /\ InCosineRange(euler.rot1[3][3]))
    => \A i \in 1..3 : \A j \in 1..3 : Within(euler.rot3[i][j], euler.rot2[i][j])

\* the matrix rot1 of lib.rs:933-944 and the matrix rot2_expected of
\* lib.rs:946-955
TestPart2Rot1 ==
    ZeroThirdRow(ExactMatrix(<< <<Rat(9, 25), Rat(12, 25), Rat(-4, 5)>>,
                                <<Rat(-4, 5), Rat(3, 5), Rat(0, 1)>>,
                                <<Rat(12, 25), Rat(16, 25), Rat(3, 5)>> >>))
TestPart2Rot2Expected ==
    << <<NumZero, NumZero, Exact(-1, 1)>>,
       <<Exact(-1, 1), NumZero, NumZero>>,
       <<NumZero, NumOne, NumZero>> >>

\* C23, witness: the matrix of test part_2, whose third row is zero, gave
\* the matrix the test expects, which differs from it, and gave it again
C23_Witness ==
    /\ euler.pc = "rot3"
    /\ euler.rot1 = TestPart2Rot1
    /\ euler.rot2 = TestPart2Rot2Expected
    /\ euler.rot3 = euler.rot2
    /\ euler.rot2 # euler.rot1

(***************************************************************************)
(* What the claims about the sampling grid, the validity mask and the      *)
(* density estimator speak of.                                             *)
(***************************************************************************)
\* the cells of the grid
Cells == 1..density.sphere_points

\* the matrix has sphere_points rows of sphere_points entries
IsGridShaped(matrix) ==
    /\ DOMAIN matrix = Cells
    /\ \A i \in Cells : DOMAIN matrix[i] = Cells

\* the squared planar radius X X + Z Z of cell (i, j)
RadiusSquared(i, j) ==
    PlaneRadiusSquared(density.lambert.x_plane[i][j], density.lambert.z_plane[i][j])

\* C11: for every grid size and for both hemispheres, "upper" and "lower",
\* every grid point (x[i,j], y[i,j], z[i,j]) of the grid that
\* create_lambert_equal_area_gridpoint returns has length 1: the magnitude
\* the point is divided by is never 0, so that no coordinate is NaN.
C11_GridPointsUnitLength ==
    density.pc \in {"grid", "points", "counts", "max", "masked"}
    => /\ IsGridShaped(density.lambert.x)
       /\ IsGridShaped(density.lambert.y)
       /\ IsGridShaped(density.lambert.z)
       /\ \A i \in Cells : \A j \in Cells :
             /\ ~density.lambert.x[i][j].nan
             /\ ~density.lambert.y[i][j].nan
             /\ ~density.lambert.z[i][j].nan
             /\ MagSquared(density.lambert.x[i][j], density.lambert.y[i][j],
                           density.lambert.z[i][j]) = RatOne

\* C11, witness: the grid of 5 x 5 points of the lower hemisphere, whose
\* centre is the pole (0, -1, 0), whose corners are the opposite pole
\* (0, 1, 0) and whose cell (2, 2) has three coordinates that are not 0
C11_Witness ==
    /\ density.pc = "grid"
    /\ density.sphere_points = 5 /\ density.hemisphere = "lower"
    /\ density.lambert.y[3][3] = Root(-1, RatOne)
    /\ density.lambert.x[1][1].sign = 0
    /\ density.lambert.y[1][1] = Root(1, RatOne)
    /\ density.lambert.x[2][2].sign = -1
    /\ density.lambert.y[2][2].sign = -1
    /\ density.lambert.z[2][2].sign = -1

\* C12: every cell whose planar radius sqrt(X X + Z Z) is above sqrt(2) +
\* 0.001 is NaN in the validity mask, every cell whose planar radius is
\* below sqrt(2) + 0.001 is valid in it, and the mask and the grid it is
\* laid over have n x n cells with the mask as without it.  The square of
\* sqrt(2) + 0.001 is 2.0028294...
C12_MaskMarksOutside ==
    density.pc = "masked"
    => /\ IsGridShaped(density.mask)
       /\ IsGridShaped(density.lambert.x)
       /\ IsGridShaped(density.counts)
       /\ \A i \in Cells : \A j \in Cells :
             /\ ~RatLess(RadiusSquared(i, j), Rat(2002830, 1000000))
                    => density.mask[i][j] = "NaN"
             /\ ~RatLess(Rat(2002829, 1000000), RadiusSquared(i, j))
                    => density.mask[i][j] = "1"

\* C12, witness: the mask of 5 x 5 cells: the corner is NaN, the middle of
\* the first row, whose radius is sqrt(2), and the centre are valid
C12_Witness ==
    /\ density.pc = "masked"
    /\ density.sphere_points = 5
    /\ RadiusSquared(1, 1) = Rat(4, 1) /\ density.mask[1][1] = "NaN"
    /\ RadiusSquared(1, 3) = Rat(2, 1) /\ density.mask[1][3] = "1"
    /\ RadiusSquared(3, 3) = RatZero /\ density.mask[3][3] = "1"

\* C13: for any input of at least one unit vector and any grid, every entry
\* of the matrix gaussian_orientation_counts returns is 0 or above.
C13_CountsNotNegative ==
    (density.pc \in {"counts", "max", "masked"} /\ Npts(density.particles) >= 1)
    => /\ IsGridShaped(density.counts)
       /\ \A i \in Cells : \A j \in Cells : density.counts[i][j] >= 0

\* C13, witness: the counts of one grain along x over 5 x 5 cells: the cell
\* the grain points at has the largest count, and the cells at a right
\* angle to the grain, the centre among them, have less
C13_Witness ==
    /\ density.pc = "counts"
    /\ density.sphere_points = 5
    /\ density.particles = <<ParticleRow(<<Thousand, 0, 0>>, 1)>>
    /\ density.counts[3][5] > density.counts[3][4]
    /\ density.counts[3][4] > density.counts[3][3]
    /\ density.counts[3][3] > 0

\* C20: the cells outside the valid disk, which the mask marks NaN, have no
\* part in the max_count that sets the colour scale of the pole figure: it
\* is the count of a valid cell (or 0).
C20_MaxCountOfValidCells ==
    density.pc = "masked"
    => \/ density.max_count = 0
       \/ \E i \in Cells : \E j \in Cells :
             /\ density.mask[i][j] = "1"
             /\ density.counts[i][j] = density.max_count

\* the vector -v
Opposite(v) == <<-v[1], -v[2], -v[3]>>

\* the grid point -g
OppositePoint(g) ==
    <<Signed(-g[1].sign, g[1].size), Signed(-g[2].sign, g[2].size),
      Signed(-g[3].sign, g[3].size)>>

\* the grid in one row, as the estimator gets it
GridRow == density.sphere_point_grid

\* the density of the input at one point: the sum of the kernel over the
\* input vectors, over three standard deviations
DensityAt(particles, point) ==
    LET npts == Npts(particles)
        k == GaussianK(npts)
        std_dev == FixSqrt(FixOfFraction(StdDevSquared(npts).n, StdDevSquared(npts).d))
        Kernel[r \in 0..Len(particles)] ==
            IF r = 0 THEN Signed(0, FixZero)
            ELSE LET e == Exp(CosAlphaTerm(k, particles[r].vector, point))
                 IN SignedAdd(Kernel[r-1],
                              Signed(e.sign, FixScale(e.size, particles[r].copies)))
        sum == Kernel[Len(particles)]
    IN sum.sign * Millionths(FixDiv(sum.size, FixScale(std_dev, 3)))

\* C24: the counts are the same when one input vector v is replaced by -v,
\* whichever it is, and when one grid point g is replaced by -g, whichever
\* it is: every entry of gaussian_orientation_counts stays as it is.
C24_AntipodalSymmetric ==
    density.pc \in {"counts", "max", "masked"}
    => /\ \A r \in 1..Len(density.particles) :
             GaussianOrientationCounts(
                 [density.particles EXCEPT ![r].vector = Opposite(@)],
                 GridRow, density.sphere_points) = density.counts
       /\ \A i, j \in Cells :
             DensityAt(density.particles,
                       OppositePoint(GridRow[(i - 1) * density.sphere_points + j]))
                 = density.counts[i][j]

\* C24, witness: counts above zero of an input with a vector that makes a
\* negative product with one grid point and a positive one with another
C24_Witness ==
    /\ density.pc = "counts"
    /\ \E r \in 1..Len(density.particles) : \E c, d \in 1..Len(GridRow) :
          /\ ParticlesDot(density.particles[r].vector, GridRow[c]).sign < 0
          /\ ParticlesDot(density.particles[r].vector, GridRow[d]).sign > 0
    /\ \E i, j \in Cells : density.counts[i][j] > 0

\* the grid point the Lambert grid holds at cell (i, j)
PointOfCell(i, j) ==
    <<RootFix(density.lambert.x[i][j]), RootFix(density.lambert.y[i][j]),
      RootFix(density.lambert.z[i][j])>>

\* C30: the entry [i][j] of the counts is the density at the grid point the
\* Lambert grid holds at cell (i, j), for every i and j: putting the cells
\* in one row at i * N + j and cutting the row of counts into N rows of N
\* undo each other.
C30_CountsAtOwnCell ==
    density.pc \in {"counts", "max", "masked"}
    => /\ IsGridShaped(density.counts)
       /\ \A i, j \in Cells :
             density.counts[i][j] = DensityAt(density.particles, PointOfCell(i, j))

\* C30, witness: counts of a grid of at least two rows that are not the
\* same when rows and columns change places
C30_Witness ==
    /\ density.pc = "counts"
    /\ density.sphere_points >= 2
    /\ \E i, j \in Cells : density.counts[i][j] # density.counts[j][i]
====
